---------------------------- MODULE Spec2Model ----------------------------
(***************************************************************************)
(* Year-by-year retirement simulation engine (engine/core.py), its         *)
(* withdrawal strategies (engine/withdrawals.py), the tax calculator       *)
(* (engine/taxes.py) and the mortgage amortisation (engine/real_estate.py).*)
(*                                                                         *)
(* Number representation.  The program computes in binary floating point;  *)
(* the model computes in fixed point over the integers:                    *)
(*   - money is a whole number of currency units;                          *)
(*   - a marginal tax rate is a whole percentage (0.24 is 24), so          *)
(*     calculate_tax yields hundredths of a unit, exactly;                 *)
(*   - an RMD divisor is held in tenths (26.5 is 265);                     *)
(*   - growth, inflation and basis ratios and the mortgage's annual rate   *)
(*     are whole numbers (1 is 100%);                                      *)
(*   - a quotient that is not a whole number is rounded to the nearest     *)
(*     representable value, as a floating-point division is (RoundDiv).    *)
(* round() of the record fields is the identity on whole numbers.          *)
(***************************************************************************)
EXTENDS Integers, Sequences, FiniteSets, TLC

VARIABLES
    \* ---- run_deterministic: arguments
    config,              \* SimulationConfig.inputs (key -> value)
    start_year,          \* SimulationConfig.start_year
    strategy_name,       \* 'standard' | 'taxable_first'
    volatility,          \* 0 for a deterministic run
    \* ---- run_deterministic: locals that live across loop iterations
    pc,                  \* "idle" | "loop" | "returned" | "raised"
    p1_age, p2_age, end_age, year,
    b_taxable, b_pretax_p1, b_pretax_p2, b_roth_p1, b_roth_p2,
    primary_home_value,
    rental_assets,       \* list of dicts
    primary_mortgage,    \* a Mortgage or None
    rental_mortgages,    \* dict id -> Mortgage
    inflation_idx,
    previous_year_taxes,
    records,             \* list of YearRecord
    locals,              \* the last iteration's locals that no record field carries
    \* ---- the caller of run_deterministic
    calls,               \* the other calls it made: their arguments and locals
    service,             \* the locals of run_monte_carlo_service
    \* ---- a Mortgage object driven on its own
    mortgage,            \* the object's fields, or None
    months_applied,      \* months handed to make_payment so far
    \* ---- a pure function called on its own
    fn, args, ret

vars == << config, start_year, strategy_name, volatility, pc, p1_age, p2_age,
           end_age, year, b_taxable, b_pretax_p1, b_pretax_p2, b_roth_p1,
           b_roth_p2, primary_home_value, rental_assets, primary_mortgage,
           rental_mortgages, inflation_idx, previous_year_taxes, records,
           locals, calls, service, mortgage, months_applied, fn, args, ret >>

engine_vars == << config, start_year, strategy_name, volatility, pc, p1_age,
                  p2_age, end_age, year, b_taxable, b_pretax_p1, b_pretax_p2,
                  b_roth_p1, b_roth_p2, primary_home_value, rental_assets,
                  primary_mortgage, rental_mortgages, inflation_idx,
                  previous_year_taxes, records, locals, calls, service >>

mortgage_vars == << mortgage, months_applied >>

call_vars == << fn, args, ret >>

\* Python's None, where an object is expected
None == [is_none |-> TRUE]

-----------------------------------------------------------------------------
(* Arithmetic *)

Max(a, b) == IF a >= b THEN a ELSE b

Min(a, b) == IF a <= b THEN a ELSE b

\* a / b for b > 0, rounded to the nearest whole number (halves upwards)
RoundDiv(a, b) == (2 * a + b) \div (2 * b)

RECURSIVE Pow(_, _)
Pow(x, n) == IF n = 0 THEN 1 ELSE x * Pow(x, n - 1)

RECURSIVE SumSeq(_)
SumSeq(s) == IF s = << >> THEN 0 ELSE Head(s) + SumSeq(Tail(s))

-----------------------------------------------------------------------------
(* engine/taxes.py: TaxCalculator *)

\* (limit, rate in percent)
brackets_ordinary ==
    << <<24800, 10>>, <<100800, 12>>, <<211400, 22>>, <<403550, 24>>,
       <<512450, 32>>, <<768700, 35>>, <<10000000, 37>> >>

brackets_ltcg == << <<96700, 0>>, <<600050, 15>>, <<10000000, 20>> >>

std_deduction == 32200

\* [(lim * inflation_factor, rate) for lim, rate in brackets]
adj_brackets(brackets, inflation_factor) ==
    [i \in DOMAIN brackets |->
        << brackets[i][1] * inflation_factor, brackets[i][2] >>]

\* the loop of lines 37-45, from bracket i on
RECURSIVE ord_tax_loop(_, _, _, _, _)
ord_tax_loop(adj, i, taxable_ord, prev_limit, ord_tax) ==
    IF i > Len(adj) THEN ord_tax
    ELSE IF taxable_ord > prev_limit
         THEN ord_tax_loop(adj, i + 1, taxable_ord, adj[i][1],
                  ord_tax + (Min(taxable_ord, adj[i][1]) - prev_limit) * adj[i][2])
         ELSE ord_tax

\* the loop of lines 48-58, from bracket i on
RECURSIVE ltcg_tax_loop(_, _, _, _, _)
ltcg_tax_loop(adj, i, ltcg_floor, ltcg_ceiling, ltcg_tax) ==
    IF i > Len(adj) THEN ltcg_tax
    ELSE IF ltcg_ceiling > ltcg_floor /\ ltcg_floor < adj[i][1]
         THEN LET fill      == Min(ltcg_ceiling, adj[i][1]) - ltcg_floor
                  new_tax   == ltcg_tax + fill * adj[i][2]
                  new_floor == Min(ltcg_ceiling, adj[i][1])
              IN  IF new_floor >= ltcg_ceiling THEN new_tax
                  ELSE ltcg_tax_loop(adj, i + 1, new_floor, ltcg_ceiling, new_tax)
         ELSE ltcg_tax_loop(adj, i + 1, ltcg_floor, ltcg_ceiling, ltcg_tax)

\* a tax whose capital gains start at 0 instead of on top of the ordinary
\* income
calculate_tax_unstacked(ordinary_income, capital_gains, inflation_factor) ==
    IF ordinary_income + capital_gains <= 0 THEN 0
    ELSE LET taxable_ord == Max(0, ordinary_income - std_deduction * inflation_factor)
         IN  ord_tax_loop(adj_brackets(brackets_ordinary, inflation_factor),
                          1, taxable_ord, 0, 0)
             + ltcg_tax_loop(adj_brackets(brackets_ltcg, inflation_factor),
                             1, 0, capital_gains, 0)

\* the tax in hundredths of a unit (rates are whole percentages)
calculate_tax(ordinary_income, capital_gains, inflation_factor) ==
    IF ordinary_income + capital_gains <= 0 THEN 0
    ELSE LET adj_std_ded == std_deduction * inflation_factor
             taxable_ord == Max(0, ordinary_income - adj_std_ded)
             ord_tax  == ord_tax_loop(adj_brackets(brackets_ordinary, inflation_factor),
                                      1, taxable_ord, 0, 0)
             ltcg_tax == ltcg_tax_loop(adj_brackets(brackets_ltcg, inflation_factor),
                                       1, taxable_ord, taxable_ord + capital_gains, 0)
         IN  ord_tax + ltcg_tax

-----------------------------------------------------------------------------
(* engine/withdrawals.py: StandardStrategy, TaxableFirstStrategy *)

\* a lookup that settles for the first bracket at or above the target rate
target_limit_of_next_bracket(adj, i, target_rate) ==
    LET above == { j \in i .. Len(adj) : adj[j][2] >= target_rate }
    IN  IF above = {} THEN 0
        ELSE adj[CHOOSE j \in above : \A k \in above : j <= k][1]

\* _get_bracket_room: room left under the upper limit of the bracket whose
\* rate is target_rate (the first such bracket; 0 when there is none)
RECURSIVE target_limit_loop(_, _, _)
target_limit_loop(adj, i, target_rate) ==
    IF i > Len(adj) THEN 0
    ELSE IF adj[i][2] = target_rate THEN adj[i][1]
         ELSE target_limit_loop(adj, i + 1, target_rate)

get_bracket_room(current_ord_income, infl, target_rate, brackets, std_ded) ==
    LET adj_std_ded    == std_ded * infl
        taxable_income == Max(0, current_ord_income - adj_std_ded)
        target_limit   == target_limit_loop(adj_brackets(brackets, infl), 1, target_rate)
    IN  IF target_limit = 0 THEN 0
        ELSE Max(0, target_limit - taxable_income)

\* a pretax block that forgets the RMD already taken out of each balance
take_pretax_ignoring_rmd(shortfall, p1_older, b_p1, b_p2, rmd_p1, rmd_p2) ==
    IF p1_older
    THEN LET take_p1 == Min(shortfall, Max(0, b_p1))
             s1      == shortfall - take_p1
             take_p2 == IF s1 > 0 THEN Min(s1, Max(0, b_p2)) ELSE 0
         IN  << take_p1, take_p2, s1 - take_p2 >>
    ELSE LET take_p2 == Min(shortfall, Max(0, b_p2))
             s1      == shortfall - take_p2
             take_p1 == IF s1 > 0 THEN Min(s1, Max(0, b_p1)) ELSE 0
         IN  << take_p1, take_p2, s1 - take_p1 >>

\* a pretax block that draws on person 1 first whatever the ages
take_pretax_person_1_first(shortfall, p1_older, b_p1, b_p2, rmd_p1, rmd_p2) ==
    LET take_p1 == Min(shortfall, Max(0, b_p1 - rmd_p1))
        s1      == shortfall - take_p1
        take_p2 == IF s1 > 0 THEN Min(s1, Max(0, b_p2 - rmd_p2)) ELSE 0
    IN  << take_p1, take_p2, s1 - take_p2 >>

\* The pretax block, older person first: << wd_pretax_p1, wd_pretax_p2, shortfall left >>.
\* Entered with shortfall > 0.
take_pretax(shortfall, p1_older, b_p1, b_p2, rmd_p1, rmd_p2) ==
    IF p1_older
    THEN LET take_p1 == Min(shortfall, Max(0, b_p1 - rmd_p1))
             s1      == shortfall - take_p1
             take_p2 == IF s1 > 0 THEN Min(s1, Max(0, b_p2 - rmd_p2)) ELSE 0
         IN  << take_p1, take_p2, s1 - take_p2 >>
    ELSE LET take_p2 == Min(shortfall, Max(0, b_p2 - rmd_p2))
             s1      == shortfall - take_p2
             take_p1 == IF s1 > 0 THEN Min(s1, Max(0, b_p1 - rmd_p1)) ELSE 0
         IN  << take_p1, take_p2, s1 - take_p1 >>

\* a taxable draw that does not reduce the shortfall it serves
take_taxable_keeping_shortfall(shortfall, bal_taxable) ==
    IF shortfall > 0
    THEN << Min(shortfall, bal_taxable), shortfall >>
    ELSE << 0, shortfall >>

\* "Take from taxable": << wd_taxable, shortfall left >>
take_taxable(shortfall, bal_taxable) ==
    IF shortfall > 0
    THEN LET wd == Min(shortfall, bal_taxable) IN << wd, shortfall - wd >>
    ELSE << 0, shortfall >>

\* a Roth draw that takes the whole shortfall, whatever the balances hold
take_roth_beyond_balance(shortfall, bal_roth_p1, bal_roth_p2) ==
    IF shortfall > 0 THEN << shortfall, 0, 0 >> ELSE << 0, 0, shortfall >>

\* a Roth draw that turns to person 2 first
take_roth_person_2_first(shortfall, bal_roth_p1, bal_roth_p2) ==
    IF shortfall > 0
    THEN LET take_r2 == Min(shortfall, bal_roth_p2)
             s1      == shortfall - take_r2
             take_r1 == IF s1 > 0 THEN Min(s1, bal_roth_p1) ELSE 0
         IN  << take_r1, take_r2, s1 - take_r1 >>
    ELSE << 0, 0, shortfall >>

\* "Take from Roth (P1 first, then P2)": << wd_roth_p1, wd_roth_p2, shortfall left >>
take_roth(shortfall, bal_roth_p1, bal_roth_p2) ==
    IF shortfall > 0
    THEN LET take_r1 == Min(shortfall, bal_roth_p1)
             s1      == shortfall - take_r1
             take_r2 == IF s1 > 0 THEN Min(s1, bal_roth_p2) ELSE 0
         IN  << take_r1, take_r2, s1 - take_r2 >>
    ELSE << 0, 0, shortfall >>

\* a conversion that turns to person 1's pool first whatever the ages
fill_bracket_person_1_first(bracket_room, p1_older, pretax_left_p1, pretax_left_p2) ==
    IF bracket_room > 0 /\ pretax_left_p1 + pretax_left_p2 > 0
    THEN LET conversion_amount == Min(bracket_room, pretax_left_p1 + pretax_left_p2)
             c1 == Min(conversion_amount, pretax_left_p1)
             c2 == Min(conversion_amount - c1, pretax_left_p2)
         IN  << c1, c2, c1 + c2 >>
    ELSE << 0, 0, 0 >>

\* "Roth conversion - fill the bracket": << conv_p1, conv_p2, roth_conversion >>
fill_bracket(bracket_room, p1_older, pretax_left_p1, pretax_left_p2) ==
    IF bracket_room > 0 /\ pretax_left_p1 + pretax_left_p2 > 0
    THEN LET conversion_amount == Min(bracket_room, pretax_left_p1 + pretax_left_p2)
         IN  IF p1_older
             THEN LET c1 == Min(conversion_amount, pretax_left_p1)
                      c2 == Min(conversion_amount - c1, pretax_left_p2)
                  IN  << c1, c2, c1 + c2 >>
             ELSE LET c2 == Min(conversion_amount, pretax_left_p2)
                      c1 == Min(conversion_amount - c2, pretax_left_p1)
                  IN  << c1, c2, c1 + c2 >>
    ELSE << 0, 0, 0 >>

\* the dict both strategies return
strategy_result(wd_pre, wd_tax, wd_roth, conv) ==
    [ wd_pretax_p1 |-> wd_pre[1], wd_pretax_p2 |-> wd_pre[2],
      wd_taxable |-> wd_tax[1],
      wd_roth_p1 |-> wd_roth[1], wd_roth_p2 |-> wd_roth[2],
      roth_conversion |-> conv[3], conv_p1 |-> conv[1], conv_p2 |-> conv[2] ]

\* account_balances = (b_taxable, b_pretax_p1, b_pretax_p2, b_roth_p1, b_roth_p2)
\* income_sources   = (emp_p1, emp_p2, ss_total, pens_total, rmd_p1, rmd_p2)

\* total_income (lines 34-35): employment, SS, pensions and RMDs
automatic_income(income_sources) ==
    income_sources[1] + income_sources[2] + income_sources[3]
    + income_sources[4] + (income_sources[5] + income_sources[6])

\* cash_need - total_income (lines 36-38, 50): the strategy's own cash need
\* is the spend goal plus the carried taxes
strategy_shortfall(inputs, income_sources) ==
    (inputs.spend_goal + inputs.previous_year_taxes)
    - automatic_income(income_sources)

\* The common tail of both execute methods (lines 89-128 and 225-265), the
\* withdrawals being decided: the bracket-filling conversion, and the result
convert_and_return(inputs, account_balances, income_sources, infl, brackets, std_ded, wd_pre, wd_tax, wd_roth) ==
    strategy_result(wd_pre, wd_tax, wd_roth,
        fill_bracket(
            get_bracket_room(automatic_income(income_sources) + wd_pre[1] + wd_pre[2],
                             infl, inputs.target_tax_bracket_rate, brackets, std_ded),
            inputs.p1_age >= inputs.p2_age,
            Max(0, account_balances[2] - income_sources[5] - wd_pre[1]),
            Max(0, account_balances[3] - income_sources[6] - wd_pre[2])))

\* Each stage below computes its withdrawal once and hands the value on to the
\* rest of the method.

\* StandardStrategy.execute from "Take from Roth" on (lines 78-128)
standard_from_roth(inputs, account_balances, income_sources, infl, brackets, std_ded, wd_pre, wd_tax) ==
    CHOOSE result \in
        { convert_and_return(inputs, account_balances, income_sources, infl,
                             brackets, std_ded, wd_pre, wd_tax, wd_roth) :
          wd_roth \in { take_roth(wd_tax[2], account_balances[4],
                                  account_balances[5]) } } : TRUE

\* StandardStrategy.execute from "Take from taxable" on (lines 73-128)
standard_from_taxable(inputs, account_balances, income_sources, infl, brackets, std_ded, wd_pre) ==
    CHOOSE result \in
        { standard_from_roth(inputs, account_balances, income_sources, infl,
                             brackets, std_ded, wd_pre, wd_tax) :
          wd_tax \in { take_taxable(wd_pre[3], account_balances[1]) } } : TRUE

\* a standard strategy that leaves the pretax accounts out of the withdrawals
StandardStrategy_execute_sparing_pretax(inputs, account_balances, income_sources, infl, brackets, std_ded) ==
    standard_from_taxable(inputs, account_balances, income_sources, infl,
                          brackets, std_ded,
                          << 0, 0, strategy_shortfall(inputs, income_sources) >>)

\* StandardStrategy.execute (lines 27-128)
StandardStrategy_execute(inputs, account_balances, income_sources, infl, brackets, std_ded) ==
    CHOOSE result \in
        { standard_from_taxable(inputs, account_balances, income_sources, infl,
                                brackets, std_ded, wd_pre) :
          wd_pre \in
            { IF strategy_shortfall(inputs, income_sources) > 0
              THEN take_pretax(strategy_shortfall(inputs, income_sources),
                               inputs.p1_age >= inputs.p2_age,
                               account_balances[2], account_balances[3],
                               income_sources[5], income_sources[6])
              ELSE << 0, 0, strategy_shortfall(inputs, income_sources) >> } } : TRUE

\* TaxableFirstStrategy.execute from "Step 4" on (lines 204-265)
taxable_first_from_pretax(inputs, account_balances, income_sources, infl, brackets, std_ded, wd_tax, wd_roth) ==
    CHOOSE result \in
        { convert_and_return(inputs, account_balances, income_sources, infl,
                             brackets, std_ded, wd_pre, wd_tax, wd_roth) :
          wd_pre \in
            { IF wd_roth[3] > 0
              THEN take_pretax(wd_roth[3], inputs.p1_age >= inputs.p2_age,
                               account_balances[2], account_balances[3],
                               income_sources[5], income_sources[6])
              ELSE << 0, 0, wd_roth[3] >> } } : TRUE

\* TaxableFirstStrategy.execute from "Step 3" on (lines 193-265)
taxable_first_from_roth(inputs, account_balances, income_sources, infl, brackets, std_ded, wd_tax) ==
    CHOOSE result \in
        { taxable_first_from_pretax(inputs, account_balances, income_sources,
                                    infl, brackets, std_ded, wd_tax, wd_roth) :
          wd_roth \in { take_roth(wd_tax[2], account_balances[4],
                                  account_balances[5]) } } : TRUE

TaxableFirstStrategy_execute(inputs, account_balances, income_sources, infl, brackets, std_ded) ==
    CHOOSE result \in
        { taxable_first_from_roth(inputs, account_balances, income_sources, infl,
                                  brackets, std_ded, wd_tax) :
          wd_tax \in { take_taxable(Max(0, strategy_shortfall(inputs, income_sources)),
                                    account_balances[1]) } } : TRUE

\* run_deterministic's choice of strategy object (core.py lines 85-88)
strategy_execute(name, inputs, account_balances, income_sources, infl) ==
    IF name = "taxable_first"
    THEN TaxableFirstStrategy_execute(inputs, account_balances, income_sources,
                                      infl, brackets_ordinary, std_deduction)
    ELSE StandardStrategy_execute(inputs, account_balances, income_sources,
                                  infl, brackets_ordinary, std_deduction)

-----------------------------------------------------------------------------
(* engine/real_estate.py: Mortgage *)

\* _calculate_monthly_payment: the new monthly_payment.
\* monthly_rate = annual_interest_rate / 12 = a / 12, so
\*   P * r(1+r)^n / ((1+r)^n - 1) = P * a * (12+a)^n / (12 * ((12+a)^n - 12^n))
calculate_monthly_payment(m) ==
    IF m.principal_remaining <= 0 \/ m.months_remaining <= 0 THEN 0
    ELSE IF m.annual_interest_rate = 0
         THEN RoundDiv(m.principal_remaining, m.months_remaining)
         ELSE LET a == m.annual_interest_rate
                  n == m.months_remaining
              IN  RoundDiv(m.principal_remaining * a * Pow(12 + a, n),
                           12 * (Pow(12 + a, n) - Pow(12, n)))

\* Mortgage.__init__
Mortgage_init(principal, annual_rate, months) ==
    LET m0 == [ principal_remaining      |-> Max(0, principal),
                annual_interest_rate     |-> Max(0, annual_rate),
                original_principal       |-> Max(0, principal),
                months_remaining         |-> Max(0, months),
                monthly_payment          |-> 0,
                interest_paid_this_year  |-> 0,
                principal_paid_this_year |-> 0 ]
    IN  [m0 EXCEPT !.monthly_payment = calculate_monthly_payment(m0)]

get_annual_payment(m) == m.monthly_payment * 12

is_paid_off(m) == m.principal_remaining <= 0

\* a monthly pass that pays the whole monthly payment whatever is still owed
pay_month_uncapped(m) ==
    LET interest0  == RoundDiv(m.principal_remaining * m.annual_interest_rate, 12)
        principal0 == m.monthly_payment - interest0
    IN  [m EXCEPT !.principal_remaining = @ - principal0,
                  !.interest_paid_this_year = @ + interest0,
                  !.principal_paid_this_year = @ + principal0]

\* one pass of the loop body of make_payment (lines 63-76)
pay_month(m) ==
    LET interest0  == RoundDiv(m.principal_remaining * m.annual_interest_rate, 12)
        principal0 == m.monthly_payment - interest0
        capped     == principal0 > m.principal_remaining
        principal_payment == IF capped THEN m.principal_remaining ELSE principal0
        interest_payment  == IF capped THEN m.monthly_payment - principal_payment
                                       ELSE interest0
    IN  [m EXCEPT !.principal_remaining = Max(0, @ - principal_payment),
                  !.interest_paid_this_year = @ + interest_payment,
                  !.principal_paid_this_year = @ + principal_payment]

\* the loop of make_payment (lines 59-76) with k passes left
RECURSIVE payment_loop(_, _)
payment_loop(m, k) ==
    IF k = 0 THEN m
    ELSE IF m.principal_remaining <= 0 \/ m.monthly_payment <= 0 THEN m
    ELSE CHOOSE paid \in { payment_loop(after, k - 1) : after \in {pay_month(m)} } :
             TRUE

make_payment(m, num_months) ==
    LET m1 == payment_loop([m EXCEPT !.interest_paid_this_year = 0,
                                     !.principal_paid_this_year = 0], num_months)
    IN  IF m1.principal_remaining > 0
        THEN LET m2 == [m1 EXCEPT !.months_remaining = Max(0, @ - num_months)]
             IN  IF m2.months_remaining > 0 /\ m2.annual_interest_rate > 0
                 THEN [m2 EXCEPT !.monthly_payment = calculate_monthly_payment(m2)]
                 ELSE m2
        ELSE [m1 EXCEPT !.months_remaining = 0, !.monthly_payment = 0]

-----------------------------------------------------------------------------
(* engine/core.py: SimulationConfig, get_rmd_factor, initialize_mortgages *)

\* SimulationConfig.get(key, default)
config_get(cfg, key, default) == IF key \in DOMAIN cfg THEN cfg[key] ELSE default

rental_key(i, suffix) == "rental_" \o ToString(i) \o "_" \o suffix

\* Uniform Lifetime table, divisors in tenths
rmd_table ==
    [age \in 73..120 |->
        << 265, 255, 246, 237, 229, 220, 211, 202, 194, 185, 177, 168,
           160, 152, 144, 137, 129, 122, 115, 108, 101, 95, 89, 84, 78,
           73, 68, 64, 60, 56, 52, 49, 46, 43, 41, 39, 37, 35, 34, 33,
           31, 30, 29, 28, 27, 25, 23, 20 >>[age - 72]]

\* a divisor that starts a year late
get_rmd_factor_from_74(age, table) ==
    IF age <= 73 THEN 0
    ELSE IF age >= 120 THEN 20
    ELSE IF age \in DOMAIN table THEN table[age] ELSE 274 - 10 * (age - 72)

\* the divisor in tenths
get_rmd_factor(age, table) ==
    IF age < 73 THEN 0
    ELSE IF age >= 120 THEN 20
    ELSE IF age \in DOMAIN table THEN table[age] ELSE 274 - 10 * (age - 72)

\* an RMD that takes the divisor for a fraction of a year: four times the
\* balance at 73
rmd_of_by_fraction(age, b_pretax) ==
    IF age >= 73 /\ b_pretax > 0
    THEN RoundDiv(b_pretax * 1000, get_rmd_factor(age, rmd_table))
    ELSE 0

\* "RMD Calculations" (lines 216-227) for one person
rmd_of(age, b_pretax) ==
    IF age >= 73 /\ b_pretax > 0
    THEN LET factor == get_rmd_factor(age, rmd_table)
         IN  IF factor > 0 THEN RoundDiv(b_pretax * 10, factor) ELSE 0
    ELSE 0

\* A rate above 1 is a percentage.  A term in years is held in twelfths of a
\* year, so that int(years * 12) is the held number.
legacy_rate(cfg, key) ==
    IF key \in DOMAIN cfg /\ cfg[key] > 1 THEN cfg[key] \div 100
    ELSE config_get(cfg, key, 0)

initialize_primary(cfg) ==
    LET primary_principal == config_get(cfg, "primary_home_mortgage_principal", 0)
        primary_rate      == legacy_rate(cfg, "primary_home_mortgage_rate")
        primary_years     == config_get(cfg, "primary_home_mortgage_years", 0)
    IN  IF primary_principal > 0 /\ primary_years > 0
        THEN Mortgage_init(primary_principal, primary_rate, primary_years)
        ELSE None

\* the while loop of lines 50-67, from index i on: the dict of rental mortgages
RECURSIVE initialize_rentals(_, _)
initialize_rentals(cfg, i) ==
    IF rental_key(i, "mortgage_principal") \notin DOMAIN cfg
    THEN << >>
    ELSE LET rental_principal == cfg[rental_key(i, "mortgage_principal")]
             rental_rate      == legacy_rate(cfg, rental_key(i, "mortgage_rate"))
             rental_years     == config_get(cfg, rental_key(i, "mortgage_years"), 0)
             rest             == initialize_rentals(cfg, i + 1)
         IN  IF rental_principal > 0 /\ rental_years > 0
             THEN [j \in DOMAIN rest \cup {i} |->
                     IF j = i THEN Mortgage_init(rental_principal, rental_rate, rental_years)
                     ELSE rest[j]]
             ELSE rest

\* "Parse Rental Properties" (lines 119-134), from index i on
RECURSIVE parse_rental_assets(_, _)
parse_rental_assets(cfg, i) ==
    IF rental_key(i, "value") \in DOMAIN cfg
    THEN << [ id     |-> i,
              value  |-> cfg[rental_key(i, "value")],
              income |-> config_get(cfg, rental_key(i, "income"), 0),
              growth_rate |-> config_get(cfg, rental_key(i, "growth_rate"),
                                         config_get(cfg, "inflation_rate", 0)),
              income_growth_rate |-> config_get(cfg, rental_key(i, "income_growth_rate"),
                                         config_get(cfg, "inflation_rate", 0)) ] >>
         \o parse_rental_assets(cfg, i + 1)
    ELSE << >>

-----------------------------------------------------------------------------
(* engine/core.py: run_deterministic *)

\* "Rental Properties Growth" (lines 167-185) for one rental: the dict after
\* the iteration
grow_rental(rental) ==
    LET grown == [rental EXCEPT !.value = @ * (1 + rental.growth_rate)]
    IN  IF grown.income = 0 THEN grown
        ELSE [grown EXCEPT !.income = @ * (1 + grown.income_growth_rate)]

\* this_year_income of a rental after grow_rental: (value / 500000) * 2000 * 12
\* when no income was declared
rental_income(rental, grown) ==
    IF rental.income = 0
    THEN IF grown.value > 0 THEN RoundDiv(grown.value * 6, 125) ELSE 0
    ELSE grown.income

\* lines 235-237 and 240-242: the mortgage after this year's service
service_mortgage(m) ==
    IF m # None /\ ~is_paid_off(m) THEN make_payment(m, 12) ELSE m

\* what a mortgage adds to total_mortgage_payment; m is the mortgage before
\* this year's service
mortgage_contribution(m) ==
    IF m # None /\ ~is_paid_off(m) THEN get_annual_payment(make_payment(m, 12)) ELSE 0

RECURSIVE sum_contributions(_, _)
sum_contributions(mortgages, ids) ==
    IF ids = {} THEN 0
    ELSE LET i == CHOOSE j \in ids : TRUE
         IN  mortgage_contribution(mortgages[i])
             + sum_contributions(mortgages, ids \ {i})

\* a balance update that also pays the year's tax bill out of the taxable
\* account
update_balances_paying_taxes(grown, rmd_p1, rmd_p2, s_res, tax_bill) ==
    << (grown[1] - s_res.wd_taxable) - tax_bill,
       grown[2] - (rmd_p1 + s_res.wd_pretax_p1 + s_res.conv_p1),
       grown[3] - (rmd_p2 + s_res.wd_pretax_p2 + s_res.conv_p2),
       (grown[4] + s_res.conv_p1) - s_res.wd_roth_p1,
       (grown[5] + s_res.conv_p2) - s_res.wd_roth_p2 >>

\* "Update Balances" (lines 281-288):
\* << b_taxable, b_pretax_p1, b_pretax_p2, b_roth_p1, b_roth_p2 >>
update_balances(grown, rmd_p1, rmd_p2, s_res, tax_bill) ==
    << grown[1] - s_res.wd_taxable,
       grown[2] - (rmd_p1 + s_res.wd_pretax_p1 + s_res.conv_p1),
       grown[3] - (rmd_p2 + s_res.wd_pretax_p2 + s_res.conv_p2),
       (grown[4] + s_res.conv_p1) - s_res.wd_roth_p1,
       (grown[5] + s_res.conv_p2) - s_res.wd_roth_p2 >>

\* a cash need that forgets the taxes carried from the year before
cash_need_without_taxes(spend_goal, total_mortgage_payment, prev_taxes) ==
    spend_goal + total_mortgage_payment

\* "3b. Cash Need" (line 246)
cash_need_of(spend_goal, total_mortgage_payment, prev_taxes) ==
    spend_goal + total_mortgage_payment + prev_taxes

\* The value recorded as Previous_Taxes (line 319, after the assignment of
\* line 298)
recorded_previous_taxes(prev_taxes, tax_bill) == tax_bill

\* The value recorded for a balance or the net worth (lines 333-340)
recorded_balance(b) == b

\* the tax bill the call before ended on, where a new call should start from
\* its config
previous_year_taxes_left_behind(cfg) == previous_year_taxes

\* previous_year_taxes before the first year (line 137)
initial_previous_year_taxes(cfg) == config_get(cfg, "previous_year_taxes", 0)

\* an inflation index that all calls share, where each call should have its own
inflation_idx_shared == inflation_idx

\* inflation_idx before the first year (line 136)
initial_inflation_idx == 1

\* the keys the entry reads with config[...] (lines 104-113)
keys_read_at_entry ==
    { "p1_start_age", "p2_start_age", "end_simulation_age", "bal_taxable",
      "bal_pretax_p1", "bal_pretax_p2", "bal_roth_p1", "bal_roth_p2" }

\* config[key] of a key that is absent: the KeyError leaves the function, and
\* with it go the locals
raise_KeyError ==
    /\ pc' = "raised"
    /\ UNCHANGED << p1_age, p2_age, end_age, year, b_taxable, b_pretax_p1,
                    b_pretax_p2, b_roth_p1, b_roth_p2, primary_home_value,
                    rental_assets, primary_mortgage, rental_mortgages,
                    inflation_idx, previous_year_taxes, records, locals >>

\* the function's entry, up to the loop (lines 82-140)
Enter ==
    /\ pc = "idle"
    /\ IF keys_read_at_entry \subseteq DOMAIN config
       THEN /\ pc' = "loop"
            /\ primary_mortgage' = initialize_primary(config)
            /\ rental_mortgages' = initialize_rentals(config, 1)
            /\ p1_age' = config["p1_start_age"]
            /\ p2_age' = config["p2_start_age"]
            /\ end_age' = config["end_simulation_age"]
            /\ b_taxable' = config["bal_taxable"]
            /\ b_pretax_p1' = config["bal_pretax_p1"]
            /\ b_pretax_p2' = config["bal_pretax_p2"]
            /\ b_roth_p1' = config["bal_roth_p1"]
            /\ b_roth_p2' = config["bal_roth_p2"]
            /\ primary_home_value' = config_get(config, "primary_home_value", 0)
            /\ rental_assets' = parse_rental_assets(config, 1)
            /\ inflation_idx' = initial_inflation_idx
            /\ previous_year_taxes' = initial_previous_year_taxes(config)
            /\ records' = << >>
            /\ locals' = << >>
            /\ year' = start_year
       ELSE raise_KeyError
    /\ UNCHANGED << config, start_year, strategy_name, volatility >>
    /\ UNCHANGED << calls, service, mortgage_vars, call_vars >>

\* the key an income source's amount is read under, once the age test that
\* guards it has passed (lines 189-212)
amount_key_read(cfg, age_key, amount_key, starts, age) ==
    IF age_key \notin DOMAIN cfg THEN {}
    ELSE IF starts /\ age >= cfg[age_key] THEN {amount_key}
    ELSE IF ~starts /\ age < cfg[age_key] THEN {amount_key}
    ELSE {}

\* the keys one iteration reads with config[...] (lines 152-158, 189-212, 245,
\* 254, 294, 347)
keys_read_in_iteration(cfg, age1, age2) ==
    { "growth_rate_taxable", "growth_rate_pretax_p1", "growth_rate_pretax_p2",
      "growth_rate_roth_p1", "growth_rate_roth_p2",
      "p1_employment_until_age", "p2_employment_until_age",
      "p1_ss_start_age", "p2_ss_start_age",
      "p1_pension_start_age", "p2_pension_start_age",
      "annual_spend_goal", "target_tax_bracket_rate", "taxable_basis_ratio",
      "inflation_rate" }
    \cup amount_key_read(cfg, "p1_employment_until_age", "p1_employment_income", FALSE, age1)
    \cup amount_key_read(cfg, "p2_employment_until_age", "p2_employment_income", FALSE, age2)
    \cup amount_key_read(cfg, "p1_ss_start_age", "p1_ss_amount", TRUE, age1)
    \cup amount_key_read(cfg, "p2_ss_start_age", "p2_ss_amount", TRUE, age2)
    \cup amount_key_read(cfg, "p1_pension_start_age", "p1_pension", TRUE, age1)
    \cup amount_key_read(cfg, "p2_pension_start_age", "p2_pension", TRUE, age2)

\* "2. Income Sources" and "RMD Calculations" (lines 187-229); pretax_p1 and
\* pretax_p2 are the balances after growth
income_of(cfg, age1, age2, infl, pretax_p1, pretax_p2) ==
    [ emp_p1 |-> IF age1 < cfg["p1_employment_until_age"]
                 THEN cfg["p1_employment_income"] * infl ELSE 0,
      emp_p2 |-> IF age2 < cfg["p2_employment_until_age"]
                 THEN cfg["p2_employment_income"] * infl ELSE 0,
      ss_p1 |-> IF age1 >= cfg["p1_ss_start_age"]
                THEN cfg["p1_ss_amount"] * infl ELSE 0,
      ss_p2 |-> IF age2 >= cfg["p2_ss_start_age"]
                THEN cfg["p2_ss_amount"] * infl ELSE 0,
      pens_p1 |-> IF age1 >= cfg["p1_pension_start_age"]
                  THEN cfg["p1_pension"] * infl ELSE 0,
      pens_p2 |-> IF age2 >= cfg["p2_pension_start_age"]
                  THEN cfg["p2_pension"] * infl ELSE 0,
      rmd_p1 |-> rmd_of(age1, pretax_p1),
      rmd_p2 |-> rmd_of(age2, pretax_p2) ]

\* income_sources as handed to the strategy (line 258)
income_sources_of(inc) ==
    << inc.emp_p1, inc.emp_p2, inc.ss_p1 + inc.ss_p2, inc.pens_p1 + inc.pens_p2,
       inc.rmd_p1, inc.rmd_p2 >>

\* "1. Account Growth" (lines 154-158)
grow_accounts(cfg, market_adj, bt, bp1, bp2, br1, br2) ==
    << bt  * (1 + cfg["growth_rate_taxable"] + market_adj),
       bp1 * (1 + cfg["growth_rate_pretax_p1"] + market_adj),
       bp2 * (1 + cfg["growth_rate_pretax_p2"] + market_adj),
       br1 * (1 + cfg["growth_rate_roth_p1"] + market_adj),
       br2 * (1 + cfg["growth_rate_roth_p2"] + market_adj) >>

\* "6. Taxes" (lines 291-297): << final_ord_income, capital_gains, tax_bill >>
taxes_of(cfg, inc, rental_inc, s_res, infl) ==
    LET final_ord_income == inc.emp_p1 + inc.emp_p2 + (inc.ss_p1 + inc.ss_p2)
                            + (inc.pens_p1 + inc.pens_p2) + (inc.rmd_p1 + inc.rmd_p2)
                            + s_res.wd_pretax_p1 + s_res.wd_pretax_p2
                            + s_res.roth_conversion + rental_inc
        capital_gains == s_res.wd_taxable * (1 - cfg["taxable_basis_ratio"])
    IN  << final_ord_income, capital_gains,
           RoundDiv(calculate_tax(final_ord_income, capital_gains, infl), 100) >>

\* "7. Record" (lines 301-342)
year_record(yr, age1, age2, inc, rental_inc, rental_value, home, spend_goal, prev_taxes, cash_need, s_res, tax, bal, actual_market_return) ==
    [ Year |-> yr, P1_Age |-> age1, P2_Age |-> age2,
      Employment_P1 |-> inc.emp_p1, Employment_P2 |-> inc.emp_p2,
      SS_P1 |-> inc.ss_p1, SS_P2 |-> inc.ss_p2,
      Pension_P1 |-> inc.pens_p1, Pension_P2 |-> inc.pens_p2,
      RMD_P1 |-> inc.rmd_p1, RMD_P2 |-> inc.rmd_p2,
      Rental_Income |-> rental_inc,
      Total_Income |-> inc.emp_p1 + inc.emp_p2 + (inc.ss_p1 + inc.ss_p2)
                       + (inc.pens_p1 + inc.pens_p2) + (inc.rmd_p1 + inc.rmd_p2)
                       + rental_inc,
      Spend_Goal |-> spend_goal,
      Previous_Taxes |-> recorded_previous_taxes(prev_taxes, tax[3]),
      Cash_Need |-> cash_need,
      WD_PreTax_P1 |-> s_res.wd_pretax_p1, WD_PreTax_P2 |-> s_res.wd_pretax_p2,
      WD_Taxable |-> s_res.wd_taxable,
      WD_Roth_P1 |-> s_res.wd_roth_p1, WD_Roth_P2 |-> s_res.wd_roth_p2,
      Roth_Conversion |-> s_res.roth_conversion,
      Conv_P1 |-> s_res.conv_p1, Conv_P2 |-> s_res.conv_p2,
      Ord_Income |-> tax[1], Cap_Gains |-> tax[2],
      Tax_Bill |-> tax[3], Taxes_Paid |-> 0,
      Bal_PreTax_P1 |-> recorded_balance(bal[2]),
      Bal_PreTax_P2 |-> recorded_balance(bal[3]),
      Bal_Roth_P1 |-> recorded_balance(bal[4]),
      Bal_Roth_P2 |-> recorded_balance(bal[5]),
      Bal_Taxable |-> recorded_balance(bal[1]),
      Primary_Home |-> home,
      Rental_Assets |-> rental_value,
      Net_Worth |-> recorded_balance(
                        (bal[1] + bal[2] + bal[3] + bal[4] + bal[5])
                        + home + rental_value),
      Market_Return |-> actual_market_return * 100 ]

\* one iteration of the simulation loop (lines 143-347) with market_adj drawn
Iteration(market_adj) ==
    \E grown \in { grow_accounts(config, market_adj, b_taxable, b_pretax_p1,
                                 b_pretax_p2, b_roth_p1, b_roth_p2) } :
    \E home \in { primary_home_value
                  * (1 + config_get(config, "primary_home_growth_rate",
                                    config_get(config, "inflation_rate", 0))) } :
    \E rentals \in { [i \in DOMAIN rental_assets |-> grow_rental(rental_assets[i])] } :
    \E rental_inc \in { SumSeq([i \in DOMAIN rental_assets |->
                                  rental_income(rental_assets[i], rentals[i])]) } :
    \E rental_value \in { SumSeq([i \in DOMAIN rental_assets |-> rentals[i].value]) } :
    \E inc \in { income_of(config, p1_age, p2_age, inflation_idx, grown[2], grown[3]) } :
    \E total_mortgage_payment \in
         { mortgage_contribution(primary_mortgage)
           + sum_contributions(rental_mortgages, DOMAIN rental_mortgages) } :
    \E spend_goal \in { config["annual_spend_goal"] * inflation_idx } :
    \E cash_need \in { cash_need_of(spend_goal, total_mortgage_payment,
                                    previous_year_taxes) } :
    \E inputs \in { [ p1_age |-> p1_age, p2_age |-> p2_age,
                       spend_goal |-> spend_goal,
                       previous_year_taxes |-> previous_year_taxes,
                       target_tax_bracket_rate |-> config["target_tax_bracket_rate"] ] } :
    \E income_sources \in { income_sources_of(inc) } :
    \E s_res \in { strategy_execute(strategy_name, inputs, grown, income_sources,
                                    inflation_idx) } :
    \E tax \in { taxes_of(config, inc, rental_inc, s_res, inflation_idx) } :
    \E bal \in { update_balances(grown, inc.rmd_p1, inc.rmd_p2, s_res, tax[3]) } :
        /\ year' = year + 1
        /\ b_taxable' = bal[1]
        /\ b_pretax_p1' = bal[2]
        /\ b_pretax_p2' = bal[3]
        /\ b_roth_p1' = bal[4]
        /\ b_roth_p2' = bal[5]
        /\ primary_home_value' = home
        /\ rental_assets' = rentals
        /\ primary_mortgage' = service_mortgage(primary_mortgage)
        /\ rental_mortgages' = [i \in DOMAIN rental_mortgages |->
                                   service_mortgage(rental_mortgages[i])]
        /\ previous_year_taxes' = tax[3]
        /\ records' = Append(records,
              year_record(year + 1, p1_age, p2_age, inc, rental_inc, rental_value,
                          home, spend_goal, previous_year_taxes, cash_need, s_res,
                          tax, bal, config["growth_rate_taxable"] + market_adj))
        /\ locals' = Append(locals,
             [ market_adj |-> market_adj, grown |-> grown,
               total_mortgage_payment |-> total_mortgage_payment,
               carried_taxes |-> previous_year_taxes,
               inflation_idx |-> inflation_idx ])
        /\ p1_age' = p1_age + 1
        /\ p2_age' = p2_age + 1
        /\ inflation_idx' = inflation_idx * (1 + config["inflation_rate"])

\* a loop that stops one year early
loop_test_strict(age, last_age) == age < last_age

\* the loop test (line 143)
loop_test(age, last_age) == age <= last_age

\* values np.random.normal(0, volatility) is taken to return when volatility > 0
MarketAdj == {-2, 1}

\* the loop test holds: one simulated year, or the KeyError of a key it reads
YearStep ==
    /\ pc = "loop"
    /\ loop_test(p1_age, end_age)
    /\ IF keys_read_in_iteration(config, p1_age, p2_age) \subseteq DOMAIN config
       THEN /\ \E market_adj \in (IF volatility > 0 THEN MarketAdj ELSE {0}) :
                   Iteration(market_adj)
            /\ UNCHANGED pc
       ELSE raise_KeyError
    /\ UNCHANGED << config, start_year, strategy_name, volatility, end_age >>
    /\ UNCHANGED << calls, service, mortgage_vars, call_vars >>

\* the loop test fails: return records
Return ==
    /\ pc = "loop"
    /\ ~loop_test(p1_age, end_age)
    /\ pc' = "returned"
    /\ UNCHANGED << config, start_year, strategy_name, volatility, p1_age, p2_age,
                    end_age, year, b_taxable, b_pretax_p1, b_pretax_p2, b_roth_p1,
                    b_roth_p2, primary_home_value, rental_assets, primary_mortgage,
                    rental_mortgages, inflation_idx, previous_year_taxes, records,
                    locals >>
    /\ UNCHANGED << calls, service, mortgage_vars, call_vars >>

-----------------------------------------------------------------------------
(* Configurations the engine is run on *)

\* simulated years of the longest run
MaxYears == 3

Merge(f, g) ==
    [k \in DOMAIN f \cup DOMAIN g |-> IF k \in DOMAIN g THEN g[k] ELSE f[k]]

P1StartAges == {72}

P2StartAges == {70, 73}

\* balances, spending and income
Households ==
    { \* retirees drawing down, Social Security from 73
      [ bal_taxable |-> 100000, bal_pretax_p1 |-> 265000, bal_pretax_p2 |-> 100000,
        bal_roth_p1 |-> 50000, bal_roth_p2 |-> 20000, annual_spend_goal |-> 150000,
        p1_employment_income |-> 0, p1_employment_until_age |-> 0,
        p2_employment_income |-> 0, p2_employment_until_age |-> 0,
        p1_ss_amount |-> 30000, p1_ss_start_age |-> 73,
        p2_ss_amount |-> 20000, p2_ss_start_age |-> 73,
        p1_pension |-> 0, p1_pension_start_age |-> 0,
        p2_pension |-> 0, p2_pension_start_age |-> 0 ],
      \* nothing but a spend goal
      [ bal_taxable |-> 0, bal_pretax_p1 |-> 0, bal_pretax_p2 |-> 0,
        bal_roth_p1 |-> 0, bal_roth_p2 |-> 0, annual_spend_goal |-> 60000,
        p1_employment_income |-> 0, p1_employment_until_age |-> 0,
        p2_employment_income |-> 0, p2_employment_until_age |-> 0,
        p1_ss_amount |-> 0, p1_ss_start_age |-> 0,
        p2_ss_amount |-> 0, p2_ss_start_age |-> 0,
        p1_pension |-> 0, p1_pension_start_age |-> 0,
        p2_pension |-> 0, p2_pension_start_age |-> 0 ],
      \* still employed, income above the spend goal
      [ bal_taxable |-> 40000, bal_pretax_p1 |-> 500000, bal_pretax_p2 |-> 53000,
        bal_roth_p1 |-> 0, bal_roth_p2 |-> 10000, annual_spend_goal |-> 60000,
        p1_employment_income |-> 90000, p1_employment_until_age |-> 74,
        p2_employment_income |-> 0, p2_employment_until_age |-> 0,
        p1_ss_amount |-> 0, p1_ss_start_age |-> 99,
        p2_ss_amount |-> 0, p2_ss_start_age |-> 99,
        p1_pension |-> 0, p1_pension_start_age |-> 99,
        p2_pension |-> 12000, p2_pension_start_age |-> 71 ],
      \* too little to cover the spend goal
      [ bal_taxable |-> 20000, bal_pretax_p1 |-> 30000, bal_pretax_p2 |-> 0,
        bal_roth_p1 |-> 5000, bal_roth_p2 |-> 0, annual_spend_goal |-> 150000,
        p1_employment_income |-> 0, p1_employment_until_age |-> 0,
        p2_employment_income |-> 0, p2_employment_until_age |-> 0,
        p1_ss_amount |-> 0, p1_ss_start_age |-> 99,
        p2_ss_amount |-> 0, p2_ss_start_age |-> 99,
        p1_pension |-> 0, p1_pension_start_age |-> 99,
        p2_pension |-> 0, p2_pension_start_age |-> 99 ] }

\* growth, inflation, basis ratio, target bracket
Rates ==
    { [ growth_rate_taxable |-> 0, growth_rate_pretax_p1 |-> 0,
        growth_rate_pretax_p2 |-> 0, growth_rate_roth_p1 |-> 0,
        growth_rate_roth_p2 |-> 0, inflation_rate |-> 0,
        taxable_basis_ratio |-> 0, target_tax_bracket_rate |-> 24 ],
      [ growth_rate_taxable |-> 1, growth_rate_pretax_p1 |-> 0,
        growth_rate_pretax_p2 |-> 1, growth_rate_roth_p1 |-> 1,
        growth_rate_roth_p2 |-> 0, inflation_rate |-> 1,
        taxable_basis_ratio |-> 1, target_tax_bracket_rate |-> 12 ],
      \* 13% is the rate of no bracket
      [ growth_rate_taxable |-> 0, growth_rate_pretax_p1 |-> 1,
        growth_rate_pretax_p2 |-> 0, growth_rate_roth_p1 |-> 0,
        growth_rate_roth_p2 |-> 1, inflation_rate |-> 1,
        taxable_basis_ratio |-> 0, target_tax_bracket_rate |-> 13 ] }

\* real estate: none; a home with an interest-free mortgage of 36 months;
\* a home whose mortgage payment is no whole number, and a rental with a
\* 3-month mortgage at 1200% a year (given as a percentage)
RealEstate ==
    { << >>,
      [ primary_home_value |-> 300000, primary_home_growth_rate |-> 0,
        primary_home_mortgage_principal |-> 36000,
        primary_home_mortgage_rate |-> 0, primary_home_mortgage_years |-> 36 ],
      [ primary_home_value |-> 200000,
        primary_home_mortgage_principal |-> 100000,
        primary_home_mortgage_rate |-> 0, primary_home_mortgage_years |-> 12,
        rental_1_value |-> 500000, rental_1_income |-> 0,
        rental_1_mortgage_principal |-> 700,
        rental_1_mortgage_rate |-> 1200, rental_1_mortgage_years |-> 3 ] }

\* keys that tell of a home, a rental or a mortgage
RealEstateKeys ==
    { "primary_home_value", "primary_home_mortgage_principal", "rental_1_value",
      "rental_1_income", "rental_1_mortgage_principal" }

\* previous_year_taxes: absent, or given
CarriedTaxes == { << >>, [ previous_year_taxes |-> 5000 ] }

Configs ==
    { Merge(Merge(Merge(Merge(h, r), e), t),
            [ p1_start_age |-> a1, p2_start_age |-> a2, end_simulation_age |-> a1 + n ]) :
        h \in Households, r \in Rates, e \in RealEstate, t \in CarriedTaxes,
        a1 \in P1StartAges, a2 \in P2StartAges, n \in -1 .. MaxYears - 1 }

-----------------------------------------------------------------------------
(* The engine: one call of run_deterministic *)

NoMortgageObject == /\ mortgage = None /\ months_applied = 0

NoService == service = [pc |-> "none"]

NoCall == /\ fn = "none" /\ args = << >> /\ ret = [done |-> FALSE] /\ NoService

\* the locals of run_deterministic before the function is entered
Unbound ==
    /\ p1_age = 0 /\ p2_age = 0 /\ end_age = 0 /\ year = 0
    /\ b_taxable = 0 /\ b_pretax_p1 = 0 /\ b_pretax_p2 = 0
    /\ b_roth_p1 = 0 /\ b_roth_p2 = 0
    /\ primary_home_value = 0
    /\ rental_assets = << >>
    /\ primary_mortgage = None
    /\ rental_mortgages = << >>
    /\ inflation_idx = 1
    /\ previous_year_taxes = 0
    /\ records = << >>
    /\ locals = << >>
    /\ calls = << >>

NotEntered == /\ pc = "idle" /\ Unbound

\* no engine run at all
NoRun ==
    /\ config = << >>
    /\ start_year = 2025
    /\ strategy_name = "standard"
    /\ volatility = 0
    /\ NotEntered
    /\ NoService

Init ==
    /\ config \in Configs
    /\ start_year = 2025
    /\ strategy_name \in {"standard", "taxable_first"}
    /\ volatility \in {0, 1}
    /\ NotEntered
    /\ NoMortgageObject
    /\ NoCall

Next == Enter \/ YearStep \/ Return

Spec == Init /\ [][Next]_vars

\* the loop runs on until its test fails
FairSpec == Spec /\ WF_vars(Next)

-----------------------------------------------------------------------------
(* A strategy's execute called on its own *)

\* person 1 older, person 2 older, both of an age
ExecuteAges == { <<73, 70>>, <<70, 73>>, <<73, 73>> }

ExecuteInputs ==
    { [ p1_age |-> ages[1], p2_age |-> ages[2], spend_goal |-> goal,
        previous_year_taxes |-> taxes, target_tax_bracket_rate |-> rate ] :
      ages \in ExecuteAges, goal \in {0, 110000, 200000, 300000},
      taxes \in {0, 5000},
      rate \in {12, 13} }

ExecuteBalances ==
    {-100, 0, 50000} \X {0, 100000} \X {-50, 0, 60000} \X {-30, 30000}
    \X {0, 10000}

ExecuteIncomes == {0, 45000} \X {0} \X {0} \X {0} \X {0, 60000} \X {0}

InitExecute ==
    /\ NoRun
    /\ NoMortgageObject
    /\ fn \in {"StandardStrategy.execute", "TaxableFirstStrategy.execute"}
    /\ args \in [ inputs : ExecuteInputs, account_balances : ExecuteBalances,
                  income_sources : ExecuteIncomes, inflation_idx : {1, 2} ]
    /\ ret = [done |-> FALSE]

Execute ==
    /\ fn \in {"StandardStrategy.execute", "TaxableFirstStrategy.execute"}
    /\ ~ret.done
    /\ ret' = [ done |-> TRUE,
                value |-> IF fn = "StandardStrategy.execute"
                          THEN StandardStrategy_execute(args.inputs,
                                   args.account_balances, args.income_sources,
                                   args.inflation_idx, brackets_ordinary, std_deduction)
                          ELSE TaxableFirstStrategy_execute(args.inputs,
                                   args.account_balances, args.income_sources,
                                   args.inflation_idx, brackets_ordinary, std_deduction) ]
    /\ UNCHANGED << fn, args >>
    /\ UNCHANGED << engine_vars, mortgage_vars >>

NextExecute == Execute

SpecExecute == InitExecute /\ [][NextExecute]_vars

-----------------------------------------------------------------------------
(* TaxCalculator.calculate_tax called on its own, then again with one of its
   incomes raised *)

\* calls that raise an income after the first call
MaxRaises == 2

RaiseSteps == {1, 1000}

\* incomes around the bracket limits, and capital gains up to and past the
\* last capital-gains limit
TaxOrdinary == {0, 32199, 56999, 128899, 132999, 300000, 799900, 10032199}

TaxGains == {-50000, 0, 1, 96699, 700000, 9990000, 10000000}

InitTax ==
    /\ NoRun
    /\ NoMortgageObject
    /\ fn = "TaxCalculator.calculate_tax"
    /\ args \in [ ordinary_income : TaxOrdinary, capital_gains : TaxGains,
                  inflation_factor : {1, 2}, raises : {0} ]
    /\ ret = [done |-> FALSE]

tax_of(a) == calculate_tax(a.ordinary_income, a.capital_gains, a.inflation_factor)

CalculateTax ==
    /\ fn = "TaxCalculator.calculate_tax"
    /\ ~ret.done
    /\ ret' = [done |-> TRUE, value |-> tax_of(args)]
    /\ UNCHANGED << fn, args >>
    /\ UNCHANGED << engine_vars, mortgage_vars >>

RaiseOrdinary ==
    /\ fn = "TaxCalculator.calculate_tax"
    /\ ret.done
    /\ args.raises < MaxRaises
    /\ \E d \in RaiseSteps :
          args' = [args EXCEPT !.ordinary_income = @ + d, !.raises = @ + 1]
    /\ ret' = [done |-> TRUE, value |-> tax_of(args')]
    /\ UNCHANGED fn
    /\ UNCHANGED << engine_vars, mortgage_vars >>

RaiseGains ==
    /\ fn = "TaxCalculator.calculate_tax"
    /\ ret.done
    /\ args.raises < MaxRaises
    /\ \E d \in RaiseSteps :
          args' = [args EXCEPT !.capital_gains = @ + d, !.raises = @ + 1]
    /\ ret' = [done |-> TRUE, value |-> tax_of(args')]
    /\ UNCHANGED fn
    /\ UNCHANGED << engine_vars, mortgage_vars >>

NextTax == CalculateTax \/ RaiseOrdinary \/ RaiseGains

SpecTax == InitTax /\ [][NextTax]_vars

-----------------------------------------------------------------------------
(* A Mortgage constructed and paid on its own *)

\* longest term, in months
MaxTermMonths == 14

\* months handed to make_payment beyond the term
MaxOverrun == 12

MortgagePrincipals == {700, 1000, 12000, 100000}

\* (principal, annual rate, term in months): interest-free over any term, and
\* the smaller principals at 100% and 1200% a year over terms of up to 3 months
MortgageTerms ==
    { <<p, 0, n>> : p \in MortgagePrincipals, n \in 1 .. MaxTermMonths }
    \cup { <<p, a, n>> : p \in {700, 1000}, a \in {1, 12}, n \in 1 .. 3 }

PaymentMonths == {1, 5, 12}

InitMortgage ==
    /\ NoRun
    /\ fn = "Mortgage"
    /\ args \in { [ principal_remaining |-> t[1], annual_interest_rate |-> t[2],
                    months |-> t[3] ] : t \in MortgageTerms }
    /\ ret = [done |-> FALSE]
    /\ mortgage = Mortgage_init(args.principal_remaining, args.annual_interest_rate,
                                args.months)
    /\ months_applied = 0

MakePayment ==
    /\ fn = "Mortgage"
    /\ \E num_months \in PaymentMonths :
          /\ months_applied + num_months <= args.months + MaxOverrun
          /\ mortgage' = make_payment(mortgage, num_months)
          /\ months_applied' = months_applied + num_months
    /\ UNCHANGED << fn, args, ret >>
    /\ UNCHANGED engine_vars

NextMortgage == MakePayment

SpecMortgage == InitMortgage /\ [][NextMortgage]_vars

-----------------------------------------------------------------------------
(* Several calls of run_deterministic on one config object *)

\* calls a caller makes one after another
MaxCalls == 3

\* calls in progress at once
MaxConcurrent == 2

\* the arguments callers pass: either strategy without volatility
\* (run_simulation_service), the standard one with it (run_monte_carlo_service)
CallModes == { <<"standard", 0>>, <<"taxable_first", 0>>, <<"standard", 1>> }

\* two simulated years of the retirees with a home, a rental and two mortgages
SessionConfigs ==
    { c \in Configs : /\ c["end_simulation_age"] = c["p1_start_age"] + 1
                      /\ c["p2_start_age"] = 73
                      /\ c["bal_pretax_p1"] = 265000
                      /\ "rental_1_value" \in DOMAIN c
                      /\ "previous_year_taxes" \notin DOMAIN c }

\* the arguments and locals of the call the engine variables hold
frame ==
    [ strategy_name |-> strategy_name, volatility |-> volatility, pc |-> pc,
      p1_age |-> p1_age, p2_age |-> p2_age, end_age |-> end_age, year |-> year,
      b_taxable |-> b_taxable, b_pretax_p1 |-> b_pretax_p1,
      b_pretax_p2 |-> b_pretax_p2, b_roth_p1 |-> b_roth_p1,
      b_roth_p2 |-> b_roth_p2, primary_home_value |-> primary_home_value,
      rental_assets |-> rental_assets, primary_mortgage |-> primary_mortgage,
      rental_mortgages |-> rental_mortgages, inflation_idx |-> inflation_idx,
      previous_year_taxes |-> previous_year_taxes, records |-> records,
      locals |-> locals ]

InitSession ==
    /\ config \in SessionConfigs
    /\ start_year = 2025
    /\ \E m \in CallModes : strategy_name = m[1] /\ volatility = m[2]
    /\ NotEntered
    /\ NoMortgageObject
    /\ NoCall

\* a new call on the same config object. Its locals are unbound until Enter
\* binds them: the variables keep what the call before left in them, so that
\* anything Enter failed to bind would be carried over
new_call ==
    /\ calls' = Append(calls, frame)
    /\ \E m \in CallModes : strategy_name' = m[1] /\ volatility' = m[2]
    /\ pc' = "idle"
    /\ UNCHANGED << config, start_year, p1_age, p2_age, end_age, year, b_taxable,
                    b_pretax_p1, b_pretax_p2, b_roth_p1, b_roth_p2,
                    primary_home_value, rental_assets, primary_mortgage,
                    rental_mortgages, inflation_idx, previous_year_taxes, records,
                    locals >>
    /\ UNCHANGED << service, mortgage_vars, call_vars >>

\* the call has returned and the caller calls again
CallAgain ==
    /\ pc = "returned"
    /\ Len(calls) < MaxCalls - 1
    /\ new_call

NextSession == Enter \/ YearStep \/ Return \/ CallAgain

SpecSession == InitSession /\ [][NextSession]_vars

\* another caller calls while this call is between two years
CallConcurrently ==
    /\ pc = "loop"
    /\ Len(calls) < MaxConcurrent - 1
    /\ new_call

\* the call in progress is set aside between two years, or has returned, and
\* call i goes on
Switch(i) ==
    /\ pc \in {"loop", "returned"}
    /\ calls[i].pc = "loop"
    /\ calls' = [calls EXCEPT ![i] = frame]
    /\ strategy_name' = calls[i].strategy_name
    /\ volatility' = calls[i].volatility
    /\ pc' = calls[i].pc
    /\ p1_age' = calls[i].p1_age
    /\ p2_age' = calls[i].p2_age
    /\ end_age' = calls[i].end_age
    /\ year' = calls[i].year
    /\ b_taxable' = calls[i].b_taxable
    /\ b_pretax_p1' = calls[i].b_pretax_p1
    /\ b_pretax_p2' = calls[i].b_pretax_p2
    /\ b_roth_p1' = calls[i].b_roth_p1
    /\ b_roth_p2' = calls[i].b_roth_p2
    /\ primary_home_value' = calls[i].primary_home_value
    /\ rental_assets' = calls[i].rental_assets
    /\ primary_mortgage' = calls[i].primary_mortgage
    /\ rental_mortgages' = calls[i].rental_mortgages
    /\ inflation_idx' = calls[i].inflation_idx
    /\ previous_year_taxes' = calls[i].previous_year_taxes
    /\ records' = calls[i].records
    /\ locals' = calls[i].locals
    /\ UNCHANGED << config, start_year >>
    /\ UNCHANGED << service, mortgage_vars, call_vars >>

SwitchCalls == \E i \in 1 .. Len(calls) : Switch(i)

NextInterleaved == Enter \/ YearStep \/ Return \/ CallConcurrently \/ SwitchCalls

SpecInterleaved == InitSession /\ [][NextInterleaved]_vars

-----------------------------------------------------------------------------
(* retirement_planner_yr.py: the legacy RetirementSimulator, run on the config
   the engine was run on.  Its strategies, Mortgage, get_rmd_factor and
   calculate_tax are copies of the engine's. *)

\* _initialize_mortgages: a rate that is given is always a percentage
Legacy_mortgage_rate(cfg, key) == IF key \in DOMAIN cfg THEN cfg[key] \div 100 ELSE 0

Legacy_initialize_primary(cfg) ==
    LET primary_principal == config_get(cfg, "primary_home_mortgage_principal", 0)
        primary_rate      == Legacy_mortgage_rate(cfg, "primary_home_mortgage_rate")
        primary_years     == config_get(cfg, "primary_home_mortgage_years", 0)
    IN  IF primary_principal > 0 /\ primary_years > 0
        THEN Mortgage_init(primary_principal, primary_rate, primary_years)
        ELSE None

RECURSIVE Legacy_initialize_rentals(_, _)
Legacy_initialize_rentals(cfg, i) ==
    IF rental_key(i, "mortgage_principal") \notin DOMAIN cfg
    THEN << >>
    ELSE LET rental_principal == cfg[rental_key(i, "mortgage_principal")]
             rental_rate      == Legacy_mortgage_rate(cfg, rental_key(i, "mortgage_rate"))
             rental_years     == config_get(cfg, rental_key(i, "mortgage_years"), 0)
             rest             == Legacy_initialize_rentals(cfg, i + 1)
         IN  IF rental_principal > 0 /\ rental_years > 0
             THEN [j \in DOMAIN rest \cup {i} |->
                     IF j = i THEN Mortgage_init(rental_principal, rental_rate, rental_years)
                     ELSE rest[j]]
             ELSE rest

\* the value recorded for a balance or the net worth (lines 806-813)
Legacy_recorded_balance(b) == Max(0, b)

\* "7. Record Results" without the mortgage and home equity breakdown
Legacy_year_record(yr, age1, age2, inc, rental_inc, rental_value, home, spend_goal, prev_taxes, cash_need, s_res, tax, bal, market_return, total_mortgage_payment) ==
    [ Year |-> yr, P1_Age |-> age1, P2_Age |-> age2,
      Employment_P1 |-> inc.emp_p1, Employment_P2 |-> inc.emp_p2,
      SS_P1 |-> inc.ss_p1, SS_P2 |-> inc.ss_p2,
      Pension_P1 |-> inc.pens_p1, Pension_P2 |-> inc.pens_p2,
      RMD_P1 |-> inc.rmd_p1, RMD_P2 |-> inc.rmd_p2,
      Rental_Income |-> rental_inc,
      Total_Income |-> inc.emp_p1 + inc.emp_p2 + (inc.ss_p1 + inc.ss_p2)
                       + (inc.pens_p1 + inc.pens_p2) + (inc.rmd_p1 + inc.rmd_p2)
                       + rental_inc,
      Spend_Goal |-> spend_goal,
      Previous_Taxes |-> prev_taxes,
      Cash_Need |-> cash_need,
      WD_PreTax_P1 |-> s_res.wd_pretax_p1, WD_PreTax_P2 |-> s_res.wd_pretax_p2,
      WD_Taxable |-> s_res.wd_taxable,
      WD_Roth_P1 |-> s_res.wd_roth_p1, WD_Roth_P2 |-> s_res.wd_roth_p2,
      Roth_Conversion |-> s_res.roth_conversion,
      Conv_P1 |-> s_res.conv_p1, Conv_P2 |-> s_res.conv_p2,
      Ord_Income |-> tax[1], Cap_Gains |-> tax[2],
      Tax_Bill |-> tax[3], Taxes_Paid |-> 0,
      Bal_PreTax_P1 |-> Legacy_recorded_balance(bal[2]),
      Bal_PreTax_P2 |-> Legacy_recorded_balance(bal[3]),
      Bal_Roth_P1 |-> Legacy_recorded_balance(bal[4]),
      Bal_Roth_P2 |-> Legacy_recorded_balance(bal[5]),
      Bal_Taxable |-> Legacy_recorded_balance(bal[1]),
      Primary_Home |-> home,
      Rental_Assets |-> rental_value,
      Net_Worth |-> Legacy_recorded_balance(
                        (bal[1] + bal[2] + bal[3] + bal[4] + bal[5])
                        + home + rental_value),
      Market_Return |-> market_return,
      Mortgage_Payment |-> total_mortgage_payment,
      Discretionary_Spend |-> spend_goal ]

\* RetirementSimulator(config, strategy).run() is called once the engine has
\* returned; the engine's call is kept
CallLegacy ==
    /\ pc = "returned"
    /\ calls = << >>
    /\ calls' = << frame >>
    /\ pc' = "legacy_idle"
    /\ UNCHANGED << config, start_year, strategy_name, volatility, p1_age, p2_age,
                    end_age, year, b_taxable, b_pretax_p1, b_pretax_p2, b_roth_p1,
                    b_roth_p2, primary_home_value, rental_assets, primary_mortgage,
                    rental_mortgages, inflation_idx, previous_year_taxes, records,
                    locals >>
    /\ UNCHANGED << service, mortgage_vars, call_vars >>

\* __init__ (lines 399-450) and run up to its loop (lines 539-576)
LegacyEnter ==
    /\ pc = "legacy_idle"
    /\ pc' = "legacy_loop"
    /\ primary_mortgage' = Legacy_initialize_primary(config)
    /\ rental_mortgages' = Legacy_initialize_rentals(config, 1)
    /\ p1_age' = config["p1_start_age"]
    /\ p2_age' = config["p2_start_age"]
    /\ end_age' = config["end_simulation_age"]
    /\ b_taxable' = config["bal_taxable"]
    /\ b_pretax_p1' = config["bal_pretax_p1"]
    /\ b_pretax_p2' = config["bal_pretax_p2"]
    /\ b_roth_p1' = config["bal_roth_p1"]
    /\ b_roth_p2' = config["bal_roth_p2"]
    /\ primary_home_value' = config_get(config, "primary_home_value", 0)
    /\ rental_assets' = parse_rental_assets(config, 1)
    /\ inflation_idx' = 1
    /\ previous_year_taxes' = config_get(config, "previous_year_taxes", 0)
    /\ records' = << >>
    /\ locals' = << >>
    /\ year' = start_year
    /\ UNCHANGED << config, start_year, strategy_name, volatility >>
    /\ UNCHANGED << calls, service, mortgage_vars, call_vars >>

\* one iteration of the legacy loop (lines 578-830) with market_adj drawn
LegacyIteration(market_adj) ==
    \E grown \in { grow_accounts(config, market_adj, b_taxable, b_pretax_p1,
                                 b_pretax_p2, b_roth_p1, b_roth_p2) } :
    \E home \in { primary_home_value
                  * (1 + config_get(config, "primary_home_growth_rate",
                                    config_get(config, "inflation_rate", 0))) } :
    \E rentals \in { [i \in DOMAIN rental_assets |-> grow_rental(rental_assets[i])] } :
    \E rental_inc \in { SumSeq([i \in DOMAIN rental_assets |->
                                  rental_income(rental_assets[i], rentals[i])]) } :
    \E rental_value \in { SumSeq([i \in DOMAIN rental_assets |-> rentals[i].value]) } :
    \E inc \in { income_of(config, p1_age, p2_age, inflation_idx, grown[2], grown[3]) } :
    \E total_mortgage_payment \in
         { mortgage_contribution(primary_mortgage)
           + sum_contributions(rental_mortgages, DOMAIN rental_mortgages) } :
    \E spend_goal \in { config["annual_spend_goal"] * inflation_idx } :
    \E cash_need \in { spend_goal + total_mortgage_payment + previous_year_taxes } :
    \E inputs \in { [ p1_age |-> p1_age, p2_age |-> p2_age,
                       spend_goal |-> spend_goal,
                       previous_year_taxes |-> previous_year_taxes,
                       target_tax_bracket_rate |-> config["target_tax_bracket_rate"] ] } :
    \E income_sources \in { income_sources_of(inc) } :
    \E s_res \in { strategy_execute(strategy_name, inputs, grown, income_sources,
                                    inflation_idx) } :
    \E tax \in { taxes_of(config, inc, rental_inc, s_res, inflation_idx) } :
    \E bal \in { update_balances(grown, inc.rmd_p1, inc.rmd_p2, s_res, tax[3]) } :
        /\ year' = year + 1
        /\ b_taxable' = bal[1]
        /\ b_pretax_p1' = bal[2]
        /\ b_pretax_p2' = bal[3]
        /\ b_roth_p1' = bal[4]
        /\ b_roth_p2' = bal[5]
        /\ primary_home_value' = home
        /\ rental_assets' = rentals
        /\ primary_mortgage' = service_mortgage(primary_mortgage)
        /\ rental_mortgages' = [i \in DOMAIN rental_mortgages |->
                                   service_mortgage(rental_mortgages[i])]
        /\ previous_year_taxes' = tax[3]
        /\ records' = Append(records,
              Legacy_year_record(year + 1, p1_age, p2_age, inc, rental_inc,
                          rental_value, home, spend_goal, previous_year_taxes,
                          cash_need, s_res, tax, bal,
                          config["growth_rate_taxable"] + market_adj,
                          total_mortgage_payment))
        /\ locals' = Append(locals,
             [ market_adj |-> market_adj, grown |-> grown,
               total_mortgage_payment |-> total_mortgage_payment,
               carried_taxes |-> previous_year_taxes,
               inflation_idx |-> inflation_idx ])
        /\ p1_age' = p1_age + 1
        /\ p2_age' = p2_age + 1
        /\ inflation_idx' = inflation_idx * (1 + config["inflation_rate"])

LegacyYearStep ==
    /\ pc = "legacy_loop"
    /\ p1_age <= end_age
    /\ \E market_adj \in (IF volatility > 0 THEN MarketAdj ELSE {0}) :
           LegacyIteration(market_adj)
    /\ UNCHANGED << config, start_year, strategy_name, volatility, pc, end_age >>
    /\ UNCHANGED << calls, service, mortgage_vars, call_vars >>

\* the legacy loop test fails: the records are returned as a DataFrame
LegacyReturn ==
    /\ pc = "legacy_loop"
    /\ ~(p1_age <= end_age)
    /\ pc' = "legacy_returned"
    /\ UNCHANGED << config, start_year, strategy_name, volatility, p1_age, p2_age,
                    end_age, year, b_taxable, b_pretax_p1, b_pretax_p2, b_roth_p1,
                    b_roth_p2, primary_home_value, rental_assets, primary_mortgage,
                    rental_mortgages, inflation_idx, previous_year_taxes, records,
                    locals >>
    /\ UNCHANGED << calls, service, mortgage_vars, call_vars >>

\* an overdrawn taxable account beside the retirees' other balances
OverdrawnHousehold ==
    [ bal_taxable |-> -100, bal_pretax_p1 |-> 265000, bal_pretax_p2 |-> 100000,
      bal_roth_p1 |-> 50000, bal_roth_p2 |-> 20000, annual_spend_goal |-> 150000,
      p1_employment_income |-> 0, p1_employment_until_age |-> 0,
      p2_employment_income |-> 0, p2_employment_until_age |-> 0,
      p1_ss_amount |-> 30000, p1_ss_start_age |-> 73,
      p2_ss_amount |-> 20000, p2_ss_start_age |-> 73,
      p1_pension |-> 0, p1_pension_start_age |-> 0,
      p2_pension |-> 0, p2_pension_start_age |-> 0 ]

\* the configs of the engine, and those of the overdrawn household
ParityConfigs ==
    Configs \cup
    { Merge(Merge(Merge(OverdrawnHousehold, r), e),
            [ p1_start_age |-> a1, p2_start_age |-> a2, end_simulation_age |-> a1 + n ]) :
        r \in Rates, e \in RealEstate,
        a1 \in P1StartAges, a2 \in P2StartAges, n \in -1 .. MaxYears - 1 }

\* deterministic runs only
InitParity ==
    /\ config \in ParityConfigs
    /\ start_year = 2025
    /\ strategy_name \in {"standard", "taxable_first"}
    /\ volatility = 0
    /\ NotEntered
    /\ NoMortgageObject
    /\ NoCall

NextParity ==
    Enter \/ YearStep \/ Return \/ CallLegacy \/ LegacyEnter \/ LegacyYearStep \/ LegacyReturn

SpecParity == InitParity /\ [][NextParity]_vars

-----------------------------------------------------------------------------
(* One call of run_deterministic on a config that lacks keys *)

\* f without the keys in K
Without(f, K) == [k \in DOMAIN f \ K |-> f[k]]

\* the keys the input contract requires
RequiredKeys ==
    { "p1_start_age", "p2_start_age", "end_simulation_age", "inflation_rate",
      "annual_spend_goal", "bal_taxable", "bal_pretax_p1", "bal_pretax_p2",
      "bal_roth_p1", "bal_roth_p2", "growth_rate_taxable", "growth_rate_pretax_p1",
      "growth_rate_pretax_p2", "growth_rate_roth_p1", "growth_rate_roth_p2",
      "taxable_basis_ratio", "target_tax_bracket_rate" }

IncomeAmountKeys ==
    { "p1_employment_income", "p2_employment_income", "p1_ss_amount",
      "p2_ss_amount", "p1_pension", "p2_pension" }

IncomeAgeKeys ==
    { "p1_employment_until_age", "p2_employment_until_age", "p1_ss_start_age",
      "p2_ss_start_age", "p1_pension_start_age", "p2_pension_start_age" }

\* what a config is given without: nothing, one key, the income amounts, or
\* every employment, Social Security and pension key
AbsentKeySets ==
    { {} } \cup { {k} : k \in RequiredKeys \cup IncomeAmountKeys \cup IncomeAgeKeys }
    \cup { IncomeAmountKeys, IncomeAmountKeys \cup IncomeAgeKeys }

\* the configs without real estate or carried taxes at a target rate of 24%,
\* less the absent keys
ConfigsLackingKeys ==
    { Without(c, K) :
        c \in { d \in Configs : /\ RealEstateKeys \cap DOMAIN d = {}
                                /\ "previous_year_taxes" \notin DOMAIN d
                                /\ d["target_tax_bracket_rate"] = 24 },
        K \in AbsentKeySets }

InitKeys ==
    /\ config \in ConfigsLackingKeys
    /\ start_year = 2025
    /\ strategy_name \in {"standard", "taxable_first"}
    /\ volatility \in {0, 1}
    /\ NotEntered
    /\ NoMortgageObject
    /\ NoCall

SpecKeys == InitKeys /\ [][Next]_vars

-----------------------------------------------------------------------------
(* get_rmd_factor and the RMD block called on their own *)

MinRmdAge == 60

MaxRmdAge == 125

\* the table run_deterministic builds, the same with four ages left out, and
\* an empty one
RmdTables ==
    { rmd_table, [age \in (73 .. 120) \ {73, 90, 100, 119} |-> rmd_table[age]], << >> }

\* pretax balances after growth
RmdBalances == {-100, 0, 265000}

InitRmd ==
    /\ NoRun
    /\ NoMortgageObject
    /\ \/ /\ fn = "get_rmd_factor"
          /\ args \in [ age : MinRmdAge .. MaxRmdAge, rmd_table : RmdTables ]
       \/ /\ fn = "rmd"
          /\ args \in [ age : MinRmdAge .. MaxRmdAge, b_pretax : RmdBalances ]
    /\ ret = [done |-> FALSE]

GetRmdFactor ==
    /\ fn = "get_rmd_factor"
    /\ ~ret.done
    /\ ret' = [done |-> TRUE, value |-> get_rmd_factor(args.age, args.rmd_table)]
    /\ UNCHANGED << fn, args >>
    /\ UNCHANGED << engine_vars, mortgage_vars >>

\* the engine's RMD of one person (lines 216-227)
TakeRmd ==
    /\ fn = "rmd"
    /\ ~ret.done
    /\ ret' = [done |-> TRUE, value |-> rmd_of(args.age, args.b_pretax)]
    /\ UNCHANGED << fn, args >>
    /\ UNCHANGED << engine_vars, mortgage_vars >>

NextRmd == GetRmdFactor \/ TakeRmd

SpecRmd == InitRmd /\ [][NextRmd]_vars

-----------------------------------------------------------------------------
(* initialize_mortgages called on its own *)

\* rentals a config tells of
MaxRentals == 2

\* the mortgage keys of one property, prefix "primary_home" or "rental_<i>":
\* none at all; no principal; a term of 0; a rate of 100%; a rate given as the
\* percentage 1200; no rate key.  Terms are in months.
MortgageKeySets(prefix) ==
    { << >>,
      (prefix \o "_mortgage_principal" :> 0) @@ (prefix \o "_mortgage_years" :> 3),
      (prefix \o "_mortgage_principal" :> 700) @@ (prefix \o "_mortgage_years" :> 0)
          @@ (prefix \o "_mortgage_rate" :> 1),
      (prefix \o "_mortgage_principal" :> 700) @@ (prefix \o "_mortgage_years" :> 3)
          @@ (prefix \o "_mortgage_rate" :> 1),
      (prefix \o "_mortgage_principal" :> 700) @@ (prefix \o "_mortgage_years" :> 3)
          @@ (prefix \o "_mortgage_rate" :> 1200),
      (prefix \o "_mortgage_principal" :> 1000) @@ (prefix \o "_mortgage_years" :> 2) }

\* the configs that give rentals i .. MaxRentals any of these key sets
RECURSIVE RentalMortgageConfigs(_)
RentalMortgageConfigs(i) ==
    IF i > MaxRentals THEN { << >> }
    ELSE { Merge(r, rest) : r \in MortgageKeySets("rental_" \o ToString(i)),
                            rest \in RentalMortgageConfigs(i + 1) }

MortgageConfigs ==
    { Merge(h, r) : h \in MortgageKeySets("primary_home"), r \in RentalMortgageConfigs(1) }

InitInitialize ==
    /\ NoRun
    /\ NoMortgageObject
    /\ fn = "initialize_mortgages"
    /\ args \in MortgageConfigs
    /\ ret = [done |-> FALSE]

\* returns primary, rentals
InitializeMortgages ==
    /\ fn = "initialize_mortgages"
    /\ ~ret.done
    /\ ret' = [ done |-> TRUE,
                value |-> [ primary |-> initialize_primary(args),
                            rentals |-> initialize_rentals(args, 1) ] ]
    /\ UNCHANGED << fn, args >>
    /\ UNCHANGED << engine_vars, mortgage_vars >>

NextInitialize == InitializeMortgages

SpecInitialize == InitInitialize /\ [][NextInitialize]_vars

-----------------------------------------------------------------------------
(* services/simulation_service.py: run_monte_carlo_service.  The percentile
   table ('stats') is left out of the result. *)

\* the largest num_simulations
MaxSimulations == 3

\* retirees, a household with nothing and one with too little, without real
\* estate or carried taxes, at a target rate of 24%, for 0, 1 or 2 years
MonteCarloConfigs ==
    { c \in Configs : /\ RealEstateKeys \cap DOMAIN c = {}
                      /\ "previous_year_taxes" \notin DOMAIN c
                      /\ c["target_tax_bracket_rate"] = 24
                      /\ c["p2_start_age"] = 73
                      /\ c["bal_pretax_p1"] # 500000
                      /\ c["end_simulation_age"] <= c["p1_start_age"] + 1 }

\* MonteCarloParams: num_simulations >= 1, volatility >= 0
InitMonteCarlo ==
    /\ config \in MonteCarloConfigs
    /\ start_year = 2025
    /\ fn = "run_monte_carlo_service"
    /\ args \in [ num_simulations : 1 .. MaxSimulations, volatility : {0, 1} ]
    /\ ret = [done |-> FALSE]
    /\ service = [pc |-> "for", success_count |-> 0]
    /\ strategy_name = "standard"
    /\ volatility = args.volatility
    /\ pc = "none"
    /\ Unbound
    /\ NoMortgageObject

\* run_deterministic is called (lines 79, 117, 118); its locals are unbound
\* until Enter binds them
service_calls(strategy, vol) ==
    /\ pc' = "idle"
    /\ strategy_name' = strategy
    /\ volatility' = vol
    /\ UNCHANGED << config, start_year, p1_age, p2_age, end_age, year, b_taxable,
                    b_pretax_p1, b_pretax_p2, b_roth_p1, b_roth_p2,
                    primary_home_value, rental_assets, primary_mortgage,
                    rental_mortgages, inflation_idx, previous_year_taxes, records,
                    locals >>

\* for i in range(num_sims): the call of line 79
McLoop ==
    /\ service.pc = "for"
    /\ Len(calls) < args.num_simulations
    /\ service' = [service EXCEPT !.pc = "call"]
    /\ service_calls("standard", args.volatility)
    /\ UNCHANGED << calls, mortgage_vars, call_vars >>

\* a run that counts as a success whatever its net worth
is_success_always(final_nw) == TRUE

\* "Check Success" (line 82)
is_success(final_nw) == final_nw > 0

\* the rest of the loop body (lines 81-90): sim_records[-1] of an empty list
\* raises IndexError; runs.append keeps the run
McCollect ==
    /\ service.pc = "call"
    /\ pc = "returned"
    /\ IF records = << >>
       THEN /\ service' = [service EXCEPT !.pc = "raised"]
            /\ UNCHANGED calls
       ELSE /\ service' = [service EXCEPT
                             !.pc = "for",
                             !.success_count =
                                 IF is_success(records[Len(records)].Net_Worth)
                                 THEN @ + 1 ELSE @]
            /\ calls' = Append(calls, frame)
    /\ UNCHANGED << config, start_year, strategy_name, volatility, pc, p1_age,
                    p2_age, end_age, year, b_taxable, b_pretax_p1, b_pretax_p2,
                    b_roth_p1, b_roth_p2, primary_home_value, rental_assets,
                    primary_mortgage, rental_mortgages, inflation_idx,
                    previous_year_taxes, records, locals >>
    /\ UNCHANGED << mortgage_vars, call_vars >>

\* the loop is over: success_rate = (success_count / num_sims) * 100, held as
\* << numerator, denominator >>; then the first baseline call (lines 92-117)
McAggregate ==
    /\ service.pc = "for"
    /\ ~(Len(calls) < args.num_simulations)
    /\ service' = [ pc |-> "baseline_standard",
                    success_count |-> service.success_count,
                    success_rate |-> << service.success_count * 100,
                                        args.num_simulations >> ]
    /\ service_calls("standard", 0)
    /\ UNCHANGED << calls, mortgage_vars, call_vars >>

\* base_s is formatted and the second baseline called (lines 117-118)
McBaseline ==
    /\ service.pc = "baseline_standard"
    /\ pc = "returned"
    /\ service' = [ pc |-> "baseline_taxable_first",
                    success_count |-> service.success_count,
                    success_rate |-> service.success_rate,
                    base_s |-> records ]
    /\ service_calls("taxable_first", 0)
    /\ UNCHANGED << calls, mortgage_vars, call_vars >>

\* all_runs_json (lines 120-129)
all_runs_of(runs) ==
    [ i \in 1 .. Len(runs) |->
        [ run_id |-> i - 1,
          final_nw |-> runs[i].records[Len(runs[i].records)].Net_Worth,
          data |-> runs[i].records ] ]

\* base_tf is formatted and the result returned (lines 118-142)
McReturn ==
    /\ service.pc = "baseline_taxable_first"
    /\ pc = "returned"
    /\ service' = [service EXCEPT !.pc = "returned"]
    /\ ret' = [ done |-> TRUE,
                value |-> [ success |-> TRUE,
                            success_rate |-> service.success_rate,
                            all_runs |-> all_runs_of(calls),
                            num_simulations |-> args.num_simulations,
                            volatility |-> args.volatility,
                            baselines |-> [ standard |-> service.base_s,
                                            taxable_first |-> records ] ] ]
    /\ UNCHANGED << fn, args, calls, mortgage_vars >>
    /\ UNCHANGED << config, start_year, strategy_name, volatility, pc, p1_age,
                    p2_age, end_age, year, b_taxable, b_pretax_p1, b_pretax_p2,
                    b_roth_p1, b_roth_p2, primary_home_value, rental_assets,
                    primary_mortgage, rental_mortgages, inflation_idx,
                    previous_year_taxes, records, locals >>

NextMonteCarlo ==
    McLoop \/ Enter \/ YearStep \/ Return \/ McCollect \/ McAggregate \/ McBaseline \/ McReturn

SpecMonteCarlo == InitMonteCarlo /\ [][NextMonteCarlo]_vars

-----------------------------------------------------------------------------
(* Properties of one strategy call (SpecExecute) *)

\* the shortfall the strategy is asked to cover: spend_goal + previous_year_taxes
\* less employment, Social Security, pensions and RMDs
CallShortfall ==
    args.inputs.spend_goal + args.inputs.previous_year_taxes
    - ( args.income_sources[1] + args.income_sources[2] + args.income_sources[3]
        + args.income_sources[4] + args.income_sources[5] + args.income_sources[6] )

CallWithdrawals ==
    ret.value.wd_pretax_p1 + ret.value.wd_pretax_p2 + ret.value.wd_taxable
    + ret.value.wd_roth_p1 + ret.value.wd_roth_p2

CallBalances ==
    args.account_balances[1] + args.account_balances[2] + args.account_balances[3]
    + args.account_balances[4] + args.account_balances[5]

\* what is left of each pretax balance once its RMD is out
PretaxAfterRmdP1 == Max(0, args.account_balances[2] - args.income_sources[5])

PretaxAfterRmdP2 == Max(0, args.account_balances[3] - args.income_sources[6])

CallAvailable ==
    args.account_balances[1] + PretaxAfterRmdP1 + PretaxAfterRmdP2
    + args.account_balances[4] + args.account_balances[5]

\* C4 as the claim states it: whenever the five balances together exceed a
\* positive shortfall, the five withdrawals sum exactly to the shortfall.
C4_BalancesExceedShortfall ==
    (ret.done /\ CallShortfall > 0 /\ CallBalances > CallShortfall)
        => CallWithdrawals = CallShortfall

\* C4: whenever the taxable balance, the two Roth balances and what is left of
\* each pretax balance after its RMD together reach a positive shortfall, the
\* five withdrawals sum exactly to the shortfall.
C4_AvailableCoversShortfall ==
    (ret.done /\ CallShortfall > 0 /\ CallAvailable >= CallShortfall)
        => CallWithdrawals = CallShortfall

\* a call whose shortfall is covered although the RMD has consumed part of the
\* pretax balance, with pretax, taxable and Roth money all drawn
C4_Witness ==
    /\ ret.done
    /\ CallShortfall > 0
    /\ CallAvailable >= CallShortfall
    /\ args.income_sources[5] > 0
    /\ ret.value.wd_pretax_p1 = args.account_balances[2] - args.income_sources[5]
    /\ ret.value.wd_pretax_p1 > 0
    /\ ret.value.wd_taxable > 0
    /\ ret.value.wd_roth_p1 > 0

\* the bounds on the pretax withdrawals and the conversions, common to the
\* claim and its amendment
PretaxWithinSource ==
    /\ ret.value.wd_pretax_p1 <= PretaxAfterRmdP1
    /\ ret.value.wd_pretax_p2 <= PretaxAfterRmdP2
    /\ ret.value.conv_p1
         <= Max(0, args.account_balances[2] - args.income_sources[5]
                   - ret.value.wd_pretax_p1)
    /\ ret.value.conv_p2
         <= Max(0, args.account_balances[3] - args.income_sources[6]
                   - ret.value.wd_pretax_p2)
    /\ ( args.account_balances[2] >= 0
         /\ args.income_sources[5] <= args.account_balances[2] )
         => args.income_sources[5] + ret.value.wd_pretax_p1 + ret.value.conv_p1
              <= args.account_balances[2]
    /\ ( args.account_balances[3] >= 0
         /\ args.income_sources[6] <= args.account_balances[3] )
         => args.income_sources[6] + ret.value.wd_pretax_p2 + ret.value.conv_p2
              <= args.account_balances[3]

\* C5 as the claim states it: no withdrawal exceeds the balance it is drawn
\* from (taxable, each Roth, each pretax after its RMD, each conversion after
\* RMD and withdrawal).
C5_WithinBalance ==
    ret.done =>
        /\ ret.value.wd_taxable <= args.account_balances[1]
        /\ ret.value.wd_roth_p1 <= args.account_balances[4]
        /\ ret.value.wd_roth_p2 <= args.account_balances[5]
        /\ PretaxWithinSource

\* C5: no withdrawal exceeds what its source holds, a source with a negative
\* balance holding nothing: wd_taxable <= max(0, b_taxable), wd_roth <=
\* max(0, b_roth), and the pretax and conversion bounds of the claim.
C5_WithinFundedBalance ==
    ret.done =>
        /\ ret.value.wd_taxable <= Max(0, args.account_balances[1])
        /\ ret.value.wd_roth_p1 <= Max(0, args.account_balances[4])
        /\ ret.value.wd_roth_p2 <= Max(0, args.account_balances[5])
        /\ PretaxWithinSource

\* a call that empties the taxable account and the pretax money left after a
\* positive RMD
C5_Witness ==
    /\ ret.done
    /\ args.income_sources[5] > 0
    /\ args.account_balances[2] > args.income_sources[5]
    /\ ret.value.wd_pretax_p1 = args.account_balances[2] - args.income_sources[5]
    /\ args.account_balances[1] > 0
    /\ ret.value.wd_taxable = args.account_balances[1]

\* C6 as the claim states it: for every input, negative balances included,
\* every withdrawal and conversion is at least 0, and a shortfall of 0 or less
\* draws nothing.
C6_NothingNegative ==
    ret.done =>
        /\ ret.value.wd_pretax_p1 >= 0 /\ ret.value.wd_pretax_p2 >= 0
        /\ ret.value.wd_taxable >= 0
        /\ ret.value.wd_roth_p1 >= 0 /\ ret.value.wd_roth_p2 >= 0
        /\ ret.value.conv_p1 >= 0 /\ ret.value.conv_p2 >= 0
        /\ ret.value.roth_conversion >= 0
        /\ CallShortfall <= 0 =>
             ( ret.value.wd_pretax_p1 = 0 /\ ret.value.wd_pretax_p2 = 0
               /\ ret.value.wd_taxable = 0
               /\ ret.value.wd_roth_p1 = 0 /\ ret.value.wd_roth_p2 = 0 )

-----------------------------------------------------------------------------
(* Properties of a run of the engine (Spec, FairSpec) *)

Years == 1 .. Len(records)

RecordWithdrawals(k) ==
    records[k].WD_PreTax_P1 + records[k].WD_PreTax_P2 + records[k].WD_Taxable
    + records[k].WD_Roth_P1 + records[k].WD_Roth_P2

\* employment, Social Security, pension and RMD income of year k
RecordAutomaticIncome(k) ==
    records[k].Employment_P1 + records[k].Employment_P2
    + records[k].SS_P1 + records[k].SS_P2
    + records[k].Pension_P1 + records[k].Pension_P2
    + records[k].RMD_P1 + records[k].RMD_P2

\* what year k could draw: the grown balances, pretax after RMD
RecordAvailable(k) ==
    locals[k].grown[1]
    + Max(0, locals[k].grown[2] - records[k].RMD_P1)
    + Max(0, locals[k].grown[3] - records[k].RMD_P2)
    + locals[k].grown[4] + locals[k].grown[5]

\* C1 as the claim states it, for runs without market perturbation: in every
\* year the five withdrawals sum to min(total available, max(0, cash need less
\* employment, Social Security, pension and RMD income)), the cash need
\* including that year's mortgage payments.
C1_WithdrawalsMeetCashNeed ==
    volatility = 0 =>
        \A k \in Years :
            RecordWithdrawals(k)
              = Min(RecordAvailable(k),
                    Max(0, records[k].Cash_Need - RecordAutomaticIncome(k)))

\* the taxes carried into year k: the configured previous_year_taxes (default
\* 0) in the first year, the tax bill of the year before afterwards
TaxesOfYearBefore(k) ==
    IF k = 1 THEN config_get(config, "previous_year_taxes", 0)
    ELSE records[k - 1].Tax_Bill

RECURSIVE RentalPaymentsInEffect(_)
RentalPaymentsInEffect(ids) ==
    IF ids = {} THEN 0
    ELSE LET i == CHOOSE j \in ids : TRUE
         IN  get_annual_payment(rental_mortgages[i])
             + RentalPaymentsInEffect(ids \ {i})

\* the annual payments of the mortgages as the year's service has left them
AnnualPaymentsInEffect ==
    (IF primary_mortgage # None THEN get_annual_payment(primary_mortgage) ELSE 0)
    + RentalPaymentsInEffect(DOMAIN rental_mortgages)

\* C2: the cash need of every year is its inflation-adjusted spend goal plus
\* the annual payments of that year's mortgages plus the tax bill of the year
\* before (the configured previous_year_taxes, default 0, in the first year);
\* and the tax bill computed in a year is not taken out of any balance in that
\* year.
C2_CashNeedCarriesLastTaxBill ==
    /\ \A k \in Years :
          /\ records[k].Spend_Goal
               = config["annual_spend_goal"] * locals[k].inflation_idx
          /\ records[k].Cash_Need
               = records[k].Spend_Goal + locals[k].total_mortgage_payment
                 + TaxesOfYearBefore(k)
    /\ records # << >> =>
          LET k == Len(records) IN
          /\ locals[k].total_mortgage_payment = AnnualPaymentsInEffect
          /\ b_taxable = locals[k].grown[1] - records[k].WD_Taxable
          /\ b_pretax_p1 = locals[k].grown[2] - records[k].RMD_P1
                           - records[k].WD_PreTax_P1 - records[k].Conv_P1
          /\ b_pretax_p2 = locals[k].grown[3] - records[k].RMD_P2
                           - records[k].WD_PreTax_P2 - records[k].Conv_P2
          /\ b_roth_p1 = locals[k].grown[4] + records[k].Conv_P1
                         - records[k].WD_Roth_P1
          /\ b_roth_p2 = locals[k].grown[5] + records[k].Conv_P2
                         - records[k].WD_Roth_P2

\* a second year that carries a positive tax bill and has mortgage payments of
\* its own, after a first year that carried configured taxes
C2_Witness ==
    /\ Len(records) >= 2
    /\ config_get(config, "previous_year_taxes", 0) > 0
    /\ records[1].Tax_Bill > 0
    /\ locals[2].total_mortgage_payment > 0
    /\ records[2].Cash_Need
         = records[2].Spend_Goal + locals[2].total_mortgage_payment
           + records[1].Tax_Bill

\* C3 as the claim states it: in a run with volatility 0, the Previous_Taxes of
\* each year's record equals the Tax_Bill of the record of the year before.
C3_PreviousTaxesLagOneYear ==
    volatility = 0 =>
        \A k \in Years :
            k + 1 \in Years => records[k + 1].Previous_Taxes = records[k].Tax_Bill

\* C8 as the claim states it: every record reports balances and a net worth of
\* at least 0, whatever the market perturbations.
C8_RecordedBalancesNonNegative ==
    \A k \in Years :
        /\ records[k].Bal_Taxable >= 0
        /\ records[k].Bal_PreTax_P1 >= 0 /\ records[k].Bal_PreTax_P2 >= 0
        /\ records[k].Bal_Roth_P1 >= 0 /\ records[k].Bal_Roth_P2 >= 0
        /\ records[k].Net_Worth >= 0

\* the records a finished run has returned, as the claim describes them
ReturnedRecordsAsCounted ==
    /\ Len(records)
         = Max(0, config["end_simulation_age"] - config["p1_start_age"] + 1)
    /\ \A k \in Years :
          /\ records[k].P1_Age = config["p1_start_age"] + (k - 1)
          /\ records[k].P2_Age = config["p2_start_age"] + (k - 1)
          /\ records[k].Year = start_year + 1 + (k - 1)

\* C10: every run terminates, and returns max(0, end_simulation_age -
\* p1_start_age + 1) records, the k-th (from 0) with P1_Age = p1_start_age + k,
\* P2_Age = p2_start_age + k and Year = start_year + 1 + k; person 2's age has
\* no part in when the run stops.
C10_TerminatesWithOneRecordPerYear ==
    /\ <>(pc = "returned")
    /\ [](pc = "returned" => ReturnedRecordsAsCounted)

\* a finished run of several years in which person 2 started out older than
\* the age at which the simulation ends
C10_Witness ==
    /\ pc = "returned"
    /\ Len(records) >= 1
    /\ config["p2_start_age"] > config["end_simulation_age"]
    /\ ReturnedRecordsAsCounted

-----------------------------------------------------------------------------
(* Properties of calculate_tax (SpecTax) *)

\* the highest marginal rate, in percent
TopRate == 37

\* C7 as the claim states it: raising the ordinary income or the capital
\* gains never lowers the tax, and never raises it by more than the highest
\* marginal rate on the amount added.
C7_TaxMonotoneWithoutJumps ==
    [][ (ret.done /\ ret'.done) =>
          /\ ret'.value >= ret.value
          /\ ret'.value - ret.value
               <= TopRate * ( (args'.ordinary_income - args.ordinary_income)
                              + (args'.capital_gains - args.capital_gains) )
      ]_vars

-----------------------------------------------------------------------------
(* Properties of a Mortgage (SpecMortgage) *)

\* C9 as the claim states it: a mortgage with principal > 0, rate >= 0 and a
\* term of n >= 1 months has nothing left to pay, and is paid off, once
\* make_payment has been called for n months in total.
C9_PaidOffAfterTerm ==
    ( args.principal_remaining > 0 /\ args.months >= 1
      /\ months_applied = args.months )
        => ( mortgage.principal_remaining = 0 /\ is_paid_off(mortgage) )

-----------------------------------------------------------------------------
(* Properties of several calls on one config (SpecSession, SpecInterleaved) *)

\* every call made so far, the one the engine variables hold last
AllCalls == Append(calls, frame)

ReturnedCalls == { i \in 1 .. Len(AllCalls) : AllCalls[i].pc = "returned" }

\* the perturbations np.random.normal gave a call, year by year
market_adjs(f) == [k \in 1 .. Len(f.locals) |-> f.locals[k].market_adj]

\* C11: two calls of run_deterministic with the same config and strategy and
\* volatility 0 return the same records, whatever calls were made in between,
\* and no random perturbation enters either of them
C11_DeterministicCallsAgree ==
    \A i, j \in ReturnedCalls :
        ( /\ AllCalls[i].strategy_name = AllCalls[j].strategy_name
          /\ AllCalls[i].volatility = 0
          /\ AllCalls[j].volatility = 0 )
        => /\ AllCalls[i].records = AllCalls[j].records
           /\ \A k \in 1 .. Len(AllCalls[i].locals) :
                  AllCalls[i].locals[k].market_adj = 0

\* a deterministic call, a call that went differently, and the first call again
C11_Witness ==
    /\ Len(calls) = 2
    /\ pc = "returned"
    /\ calls[1].strategy_name = strategy_name
    /\ calls[1].volatility = 0
    /\ volatility = 0
    /\ Len(records) = 2
    /\ calls[2].records # records
    /\ calls[1].records = records

\* the calls whose locals are bound
EnteredCalls == { i \in 1 .. Len(AllCalls) : AllCalls[i].pc \in {"loop", "returned"} }

\* two calls given the same perturbations up to year k have the same record
\* of year k
SameRecordsForSamePerturbations(f, g) ==
    \A k \in 1 .. Min(Len(f.records), Len(g.records)) :
        (\A m \in 1 .. k : f.locals[m].market_adj = g.locals[m].market_adj)
        => f.records[k] = g.records[k]

\* C12: calls of run_deterministic on one config do not affect each other:
\* no step changes the config, and however the years of the calls are
\* interleaved, two calls of the same strategy given the same perturbations
\* have the same records year by year, as a call running alone has
C12_CallsIndependent ==
    /\ [](\A i, j \in EnteredCalls :
              AllCalls[i].strategy_name = AllCalls[j].strategy_name
              => SameRecordsForSamePerturbations(AllCalls[i], AllCalls[j]))
    /\ [][config' = config]_vars

\* a call set aside after its first year while a later call of the same
\* strategy, given the same perturbation in year 1, has done both its years
C12_Witness ==
    /\ Len(calls) = 1
    /\ calls[1].pc = "loop"
    /\ pc = "loop"
    /\ calls[1].strategy_name = strategy_name
    /\ Len(calls[1].records) = 1
    /\ loop_test(calls[1].p1_age, calls[1].end_age)
    /\ Len(records) = 2
    /\ calls[1].locals[1].market_adj = locals[1].market_adj
    /\ volatility > 0
    /\ calls[1].primary_mortgage # primary_mortgage

-----------------------------------------------------------------------------
(* The engine against the legacy simulator (SpecParity) *)

\* the columns the parity tests compare
ParityColumns ==
    { "Net_Worth", "Bal_Taxable", "Bal_PreTax_P1", "Bal_PreTax_P2", "Bal_Roth_P1",
      "Bal_Roth_P2", "WD_Taxable", "WD_PreTax_P1", "Roth_Conversion" }

\* C13 as the claim states it: for a deterministic config and either strategy,
\* the legacy simulator returns as many records as the engine did and, year by
\* year, the same Net_Worth, balances, WD_Taxable, WD_PreTax_P1 and
\* Roth_Conversion.
C13_EngineMatchesLegacy ==
    pc = "legacy_returned"
    => /\ Len(records) = Len(calls[1].records)
       /\ \A k \in 1 .. Len(records) :
              \A col \in ParityColumns : records[k][col] = calls[1].records[k][col]

-----------------------------------------------------------------------------
(* Properties of one run on unusual configs (Spec, SpecKeys) *)

\* all five balances 0, no income of any kind, no real estate, a spend goal
NothingToDrawOn ==
    /\ config["bal_taxable"] = 0
    /\ config["bal_pretax_p1"] = 0 /\ config["bal_pretax_p2"] = 0
    /\ config["bal_roth_p1"] = 0 /\ config["bal_roth_p2"] = 0
    /\ config["p1_employment_income"] = 0 /\ config["p2_employment_income"] = 0
    /\ config["p1_ss_amount"] = 0 /\ config["p2_ss_amount"] = 0
    /\ config["p1_pension"] = 0 /\ config["p2_pension"] = 0
    /\ RealEstateKeys \cap DOMAIN config = {}
    /\ config["annual_spend_goal"] > 0

\* C14: with nothing to draw on and a positive spend goal the run raises
\* nothing and returns a record for every year, and in every record the five
\* withdrawals, the Roth conversion, the tax bill and the net worth are 0,
\* for either strategy.
C14_NothingWithdrawnFromNothing ==
    NothingToDrawOn
    => /\ pc # "raised"
       /\ pc = "returned" => ReturnedRecordsAsCounted
       /\ \A k \in Years :
              /\ records[k].WD_PreTax_P1 = 0 /\ records[k].WD_PreTax_P2 = 0
              /\ records[k].WD_Taxable = 0
              /\ records[k].WD_Roth_P1 = 0 /\ records[k].WD_Roth_P2 = 0
              /\ records[k].Roth_Conversion = 0
              /\ records[k].Tax_Bill = 0
              /\ records[k].Net_Worth = 0

\* such a run has returned its records of two years or more
C14_Witness ==
    /\ NothingToDrawOn
    /\ pc = "returned"
    /\ Len(records) >= 2
    /\ records[2].Spend_Goal > 0
    /\ records[2].WD_Roth_P1 = 0

\* an income source of a record and the keys it is configured by
IncomeColumns ==
    { << "Employment_P1", "p1_employment_income", "p1_employment_until_age" >>,
      << "Employment_P2", "p2_employment_income", "p2_employment_until_age" >>,
      << "SS_P1", "p1_ss_amount", "p1_ss_start_age" >>,
      << "SS_P2", "p2_ss_amount", "p2_ss_start_age" >>,
      << "Pension_P1", "p1_pension", "p1_pension_start_age" >>,
      << "Pension_P2", "p2_pension", "p2_pension_start_age" >> }

\* C15 as the claim states it: on a config that has every required key, an
\* employment, Social Security or pension key that is absent makes the run
\* raise nothing, and the source it belongs to pays 0 in every year.
C15_AbsentIncomeKeysDefault ==
    RequiredKeys \subseteq DOMAIN config
    => /\ pc # "raised"
       /\ \A k \in 1 .. Len(records) :
              \A col \in IncomeColumns :
                  (col[2] \notin DOMAIN config \/ col[3] \notin DOMAIN config)
                  => records[k][col[1]] = 0

\* C16 as the claim states it: on a config that lacks a required key the run
\* fails in its initialization: it never reaches the year loop, let alone
\* returns, whatever the start and end ages.
C16_MissingRequiredKeyFailsAtEntry ==
    RequiredKeys \ DOMAIN config # {}
    => /\ pc \in {"idle", "raised"}
       /\ records = << >>

-----------------------------------------------------------------------------
(* Properties of the RMD divisor (SpecRmd); divisors are in tenths *)

\* C17: get_rmd_factor returns 0 below age 73, the table's value from 73 to
\* 119 (26.5 at 73 in the engine's table), 2.0 from 120 on, and
\* 27.4 - (age - 72) from 73 to 119 where the table has no entry; the engine's
\* RMD is the balance after growth divided by that divisor when the owner is
\* 73 or older and the balance is above 0, and 0 otherwise.
C17_RmdFactorByAge ==
    ret.done =>
        /\ fn = "get_rmd_factor" =>
              /\ args.age < 73 => ret.value = 0
              /\ args.age >= 120 => ret.value = 20
              /\ (args.age \in 73 .. 119 /\ args.age \in DOMAIN args.rmd_table)
                 => ret.value = args.rmd_table[args.age]
              /\ (args.age = 73 /\ args.rmd_table = rmd_table) => ret.value = 265
              /\ (args.age \in 73 .. 119 /\ args.age \notin DOMAIN args.rmd_table)
                 => ret.value = 274 - 10 * (args.age - 72)
        /\ fn = "rmd" =>
              /\ (args.age >= 73 /\ args.b_pretax > 0)
                 => \E factor \in { rmd_table[Min(args.age, 120)] } :
                        /\ factor > 0
                        /\ 2 * factor * ret.value <= 20 * args.b_pretax + factor
                        /\ 2 * factor * ret.value > 20 * args.b_pretax - factor
              /\ ~(args.age >= 73 /\ args.b_pretax > 0) => ret.value = 0

\* an age the table has no entry for: 27.4 - 18 = 9.4
C17_Witness ==
    /\ ret.done
    /\ fn = "get_rmd_factor"
    /\ args.age = 90
    /\ 90 \notin DOMAIN args.rmd_table
    /\ 74 \in DOMAIN args.rmd_table
    /\ ret.value = 94

-----------------------------------------------------------------------------
(* Properties of initialize_mortgages (SpecInitialize) *)

\* a property's mortgage principal and term are both above 0
MortgageDue(prefix) ==
    /\ config_get(args, prefix \o "_mortgage_principal", 0) > 0
    /\ config_get(args, prefix \o "_mortgage_years", 0) > 0

\* the rate the claim has passed on: a supplied rate above 1 divided by 100,
\* any other as it is, 0 when none is supplied
RatePassed(prefix) ==
    IF config_get(args, prefix \o "_mortgage_rate", 0) > 1
    THEN config_get(args, prefix \o "_mortgage_rate", 0) \div 100
    ELSE config_get(args, prefix \o "_mortgage_rate", 0)

\* C18 as the claim states it: initialize_mortgages makes a Mortgage for the
\* primary home, and for rental i, exactly when that property's mortgage
\* principal and term are above 0, and hands it the supplied rate divided by
\* 100 when that is above 1 and unchanged otherwise.
C18_MortgageIffPrincipalAndTerm ==
    ret.done =>
        /\ ret.value.primary # None <=> MortgageDue("primary_home")
        /\ ret.value.primary # None
           => ret.value.primary.annual_interest_rate = RatePassed("primary_home")
        /\ \A i \in 1 .. MaxRentals :
              /\ i \in DOMAIN ret.value.rentals <=> MortgageDue("rental_" \o ToString(i))
              /\ i \in DOMAIN ret.value.rentals
                 => ret.value.rentals[i].annual_interest_rate
                      = RatePassed("rental_" \o ToString(i))

-----------------------------------------------------------------------------
(* Properties of run_monte_carlo_service (SpecMonteCarlo) *)

\* the runs kept so far that ended with a net worth above 0
SuccessfulRuns ==
    { i \in 1 .. Len(calls) : calls[i].records[Len(calls[i].records)].Net_Worth > 0 }

\* C19 as the claim states it: the service raises nothing; it aggregates only
\* once num_simulations runs with the given volatility are done; a run counts
\* as a success exactly when the Net_Worth of its last record is above 0;
\* success_rate is successes / num_simulations * 100, from 0 to 100; and
\* all_runs has num_simulations entries, run_id 0 .. num_simulations - 1, each
\* with its run's final Net_Worth.
C19_MonteCarloCountsEveryRun ==
    /\ service.pc # "raised"
    /\ service.pc \in {"for", "call"} => service.success_count = Cardinality(SuccessfulRuns)
    /\ service.pc \in {"baseline_standard", "baseline_taxable_first", "returned"}
       => /\ Len(calls) = args.num_simulations
          /\ \A i \in 1 .. Len(calls) :
                 /\ calls[i].strategy_name = "standard"
                 /\ calls[i].volatility = args.volatility
                 /\ calls[i].pc = "returned"
          /\ service.success_rate[1] = 100 * Cardinality(SuccessfulRuns)
          /\ service.success_rate[2] = args.num_simulations
          /\ service.success_rate[1] >= 0
          /\ service.success_rate[1] <= 100 * service.success_rate[2]
    /\ ret.done
       => /\ ret.value.success_rate = service.success_rate
          /\ Len(ret.value.all_runs) = args.num_simulations
          /\ \A i \in 1 .. Len(ret.value.all_runs) :
                 /\ ret.value.all_runs[i].run_id = i - 1
                 /\ ret.value.all_runs[i].final_nw
                      = calls[i].records[Len(calls[i].records)].Net_Worth

-----------------------------------------------------------------------------
(* Properties of the bracket room (SpecExecute) *)

\* the ordinary brackets whose rate is the call's target rate
TargetBrackets ==
    { i \in DOMAIN brackets_ordinary :
        brackets_ordinary[i][2] = args.inputs.target_tax_bracket_rate }

\* the ordinary income before the conversion: employment, SS, pensions, RMDs
\* and the pretax withdrawals the call decided
OrdinaryIncomeSoFar ==
    automatic_income(args.income_sources)
    + ret.value.wd_pretax_p1 + ret.value.wd_pretax_p2

\* the room the claim states
StatedRoom ==
    IF TargetBrackets = {} THEN 0
    ELSE LET i == CHOOSE j \in TargetBrackets : TRUE
         IN  Max(0, brackets_ordinary[i][1] * args.inflation_idx
                    - Max(0, OrdinaryIncomeSoFar - std_deduction * args.inflation_idx))

\* the pretax money left to convert after the RMDs and the withdrawals
PretaxLeftToConvert ==
    Max(0, args.account_balances[2] - args.income_sources[5] - ret.value.wd_pretax_p1)
    + Max(0, args.account_balances[3] - args.income_sources[6] - ret.value.wd_pretax_p2)

\* C20: in both strategies, a target rate that is the rate of no ordinary
\* bracket gives a room of 0 and conv_p1 = conv_p2 = roth_conversion = 0,
\* whatever the balances and incomes and without an error; a target rate that
\* is a bracket's rate gives the room max(0, inflation-scaled upper limit of
\* that bracket - max(0, ordinary income so far - inflation-scaled standard
\* deduction)), and the conversion fills that room from the pretax money left.
C20_BracketRoom ==
    (fn \in {"StandardStrategy.execute", "TaxableFirstStrategy.execute"} /\ ret.done)
    => /\ get_bracket_room(OrdinaryIncomeSoFar, args.inflation_idx,
                           args.inputs.target_tax_bracket_rate,
                           brackets_ordinary, std_deduction) = StatedRoom
       /\ TargetBrackets = {}
          => /\ StatedRoom = 0
             /\ ret.value.conv_p1 = 0
             /\ ret.value.conv_p2 = 0
             /\ ret.value.roth_conversion = 0
       /\ ret.value.roth_conversion = ret.value.conv_p1 + ret.value.conv_p2
       /\ ret.value.roth_conversion
            = IF StatedRoom > 0 /\ PretaxLeftToConvert > 0
              THEN Min(StatedRoom, PretaxLeftToConvert) ELSE 0

\* a call whose target rate is no bracket's, with pretax money left and an
\* income so low that any bracket would leave room
C20_Witness ==
    /\ fn \in {"StandardStrategy.execute", "TaxableFirstStrategy.execute"}
    /\ ret.done
    /\ TargetBrackets = {}
    /\ PretaxLeftToConvert > 0
    /\ OrdinaryIncomeSoFar < brackets_ordinary[1][1]
    /\ ret.value.roth_conversion = 0

-----------------------------------------------------------------------------
(* Properties of the mortgage service within a year (Spec) *)

\* what was paid during the year on a mortgage that was m before the year's
\* service and is after once it is over
PaidDuringYear(m, after) ==
    IF m # None /\ ~is_paid_off(m)
    THEN after.interest_paid_this_year + after.principal_paid_this_year
    ELSE 0

RECURSIVE RentalsPaidDuringYear(_, _, _)
RentalsPaidDuringYear(mortgages, after, ids) ==
    IF ids = {} THEN 0
    ELSE LET i == CHOOSE j \in ids : TRUE
         IN  PaidDuringYear(mortgages[i], after[i])
             + RentalsPaidDuringYear(mortgages, after, ids \ {i})

\* C21 as the claim states it: in every simulated year, what the mortgages add
\* to the year's cash need is what was paid on them during that year (interest
\* and principal of the twelve months, or of the months up to the payoff), and
\* a mortgage paid off before the year adds 0.
C21_CashNeedHoldsPaymentsMade ==
    [][ (pc = "loop" /\ Len(locals') = Len(locals) + 1)
        => locals'[Len(locals')].total_mortgage_payment
             = PaidDuringYear(primary_mortgage, primary_mortgage')
               + RentalsPaidDuringYear(rental_mortgages, rental_mortgages',
                                       DOMAIN rental_mortgages) ]_vars

-----------------------------------------------------------------------------
(* Properties of make_payment on a Mortgage (SpecMortgage) *)

\* C22: under any sequence of make_payment calls, principal_remaining is never
\* negative and never increases; once it is 0 the mortgage stays paid off, and
\* every further call leaves principal_remaining, months_remaining and
\* monthly_payment at 0 and reports 0 interest and 0 principal paid.
C22_PaidOffIsTerminal ==
    /\ [](mortgage.principal_remaining >= 0)
    /\ [][ /\ mortgage'.principal_remaining <= mortgage.principal_remaining
           /\ mortgage.principal_remaining = 0
              => /\ is_paid_off(mortgage')
                 /\ mortgage'.principal_remaining = 0
                 /\ mortgage'.months_remaining = 0
                 /\ mortgage'.monthly_payment = 0
                 /\ mortgage'.interest_paid_this_year = 0
                 /\ mortgage'.principal_paid_this_year = 0 ]_vars

\* a mortgage with interest that was paid off, then paid on again: the call
\* found nothing to pay
C22_Witness ==
    /\ fn = "Mortgage"
    /\ args.annual_interest_rate > 0
    /\ months_applied > args.months
    /\ mortgage.principal_remaining = 0
    /\ mortgage.monthly_payment = 0
    /\ mortgage.principal_paid_this_year = 0
    /\ mortgage.interest_paid_this_year = 0

-----------------------------------------------------------------------------
(* Properties of the order of the withdrawals (SpecExecute) *)

\* the call has a positive shortfall and no negative balance
ShortfallOnSoundBalances ==
    /\ ret.done
    /\ CallShortfall > 0
    /\ \A i \in 1 .. 5 : args.account_balances[i] >= 0

\* << withdrawal, amount available >> of the pretax accounts, the older
\* person's first (person 1's on equal ages)
PretaxDraws ==
    IF args.inputs.p1_age >= args.inputs.p2_age
    THEN << << ret.value.wd_pretax_p1, PretaxAfterRmdP1 >>,
            << ret.value.wd_pretax_p2, PretaxAfterRmdP2 >> >>
    ELSE << << ret.value.wd_pretax_p2, PretaxAfterRmdP2 >>,
            << ret.value.wd_pretax_p1, PretaxAfterRmdP1 >> >>

TaxableDraw == << << ret.value.wd_taxable, args.account_balances[1] >> >>

RothDraws ==
    << << ret.value.wd_roth_p1, args.account_balances[4] >>,
       << ret.value.wd_roth_p2, args.account_balances[5] >> >>

\* a source is drawn on only if every source before it gave all it had
DrawnInOrder(draws) ==
    \A j \in DOMAIN draws :
        draws[j][1] > 0 => \A i \in 1 .. j - 1 : draws[i][1] = draws[i][2]

\* C23: StandardStrategy.execute with a positive shortfall and non-negative
\* balances draws in the order older person's pretax, younger person's
\* pretax, taxable, Roth P1, Roth P2: a source has a positive withdrawal only
\* if every earlier source was drawn to its full available amount.
C23_StandardOrder ==
    (fn = "StandardStrategy.execute" /\ ShortfallOnSoundBalances)
    => DrawnInOrder(PretaxDraws \o TaxableDraw \o RothDraws)

\* person 2 is the older, and the shortfall reaches the last source: all
\* five are drawn on
C23_Witness ==
    /\ fn = "StandardStrategy.execute"
    /\ ShortfallOnSoundBalances
    /\ args.inputs.p1_age < args.inputs.p2_age
    /\ ret.value.wd_pretax_p2 > 0
    /\ ret.value.wd_pretax_p1 > 0
    /\ ret.value.wd_taxable > 0
    /\ ret.value.wd_roth_p1 > 0
    /\ ret.value.wd_roth_p2 > 0

\* C24: TaxableFirstStrategy.execute with a positive shortfall and
\* non-negative balances draws in the order taxable, Roth P1, Roth P2, older
\* person's pretax, younger person's pretax: a source has a positive
\* withdrawal only if every earlier source was drawn to its full available
\* amount.
C24_TaxableFirstOrder ==
    (fn = "TaxableFirstStrategy.execute" /\ ShortfallOnSoundBalances)
    => DrawnInOrder(TaxableDraw \o RothDraws \o PretaxDraws)

\* both ages equal, and the shortfall ends within person 2's pretax account:
\* the four sources before it are emptied
C24_Witness ==
    /\ fn = "TaxableFirstStrategy.execute"
    /\ ShortfallOnSoundBalances
    /\ args.inputs.p1_age = args.inputs.p2_age
    /\ ret.value.wd_taxable > 0
    /\ ret.value.wd_roth_p1 > 0
    /\ ret.value.wd_roth_p2 > 0
    /\ ret.value.wd_pretax_p1 > 0
    /\ ret.value.wd_pretax_p2 > 0
    /\ ret.value.wd_pretax_p2 < PretaxAfterRmdP2

-----------------------------------------------------------------------------
(* Properties of the Roth conversion (SpecExecute) *)

\* pretax left = max(0, balance - RMD - pretax withdrawal), of each person
PretaxLeftP1 ==
    Max(0, args.account_balances[2] - args.income_sources[5] - ret.value.wd_pretax_p1)

PretaxLeftP2 ==
    Max(0, args.account_balances[3] - args.income_sources[6] - ret.value.wd_pretax_p2)

\* << conversion, pretax left >> of the older person (person 1 on equal ages)
\* and of the younger one
ConversionPools ==
    IF args.inputs.p1_age >= args.inputs.p2_age
    THEN << << ret.value.conv_p1, PretaxLeftP1 >>, << ret.value.conv_p2, PretaxLeftP2 >> >>
    ELSE << << ret.value.conv_p2, PretaxLeftP2 >>, << ret.value.conv_p1, PretaxLeftP1 >> >>

\* C25: in both strategies roth_conversion = conv_p1 + conv_p2 = min(bracket
\* room, pretax left of P1 + pretax left of P2), the room being measured
\* against employment + SS + pension + RMD + pretax withdrawals; the older
\* person's pool is converted first, and the younger person's only once the
\* older one's is converted in full.
C25_ConversionFillsRoomOlderFirst ==
    (fn \in {"StandardStrategy.execute", "TaxableFirstStrategy.execute"} /\ ret.done)
    => /\ ret.value.roth_conversion = ret.value.conv_p1 + ret.value.conv_p2
       /\ ret.value.roth_conversion = Min(StatedRoom, PretaxLeftP1 + PretaxLeftP2)
       /\ ConversionPools[1][1] = Min(ret.value.roth_conversion, ConversionPools[1][2])
       /\ ConversionPools[2][1] = ret.value.roth_conversion - ConversionPools[1][1]
       /\ ConversionPools[2][1] > 0 => ConversionPools[1][1] = ConversionPools[1][2]
       /\ ConversionPools[2][1] <= ConversionPools[2][2]

\* person 2 is the older: its pool is converted in full and a part of
\* person 1's after it
C25_Witness ==
    /\ fn \in {"StandardStrategy.execute", "TaxableFirstStrategy.execute"}
    /\ ret.done
    /\ args.inputs.p1_age < args.inputs.p2_age
    /\ PretaxLeftP2 > 0
    /\ ret.value.conv_p2 = PretaxLeftP2
    /\ ret.value.conv_p1 > 0
    /\ ret.value.conv_p1 < PretaxLeftP1
    /\ ret.value.roth_conversion = StatedRoom

-----------------------------------------------------------------------------
(* Properties of the income a conversion leaves (Spec) *)

\* the upper boundary of the bracket whose rate is the config's target rate,
\* 0 when there is none
TargetBoundary ==
    LET at == { i \in DOMAIN brackets_ordinary :
                  brackets_ordinary[i][2] = config["target_tax_bracket_rate"] }
    IN  IF at = {} THEN 0 ELSE brackets_ordinary[CHOOSE i \in at : TRUE][1]

\* C26 as the claim states it: in every simulated year with a Roth conversion
\* above 0, the final ordinary income of the tax bill (employment + SS +
\* pension + RMDs + pretax withdrawals + conversion + rental income) less the
\* inflation-scaled standard deduction is at most the inflation-scaled upper
\* boundary of the target bracket.
C26_ConversionStaysInTargetBracket ==
    \A k \in 1 .. Len(records) :
        records[k].Roth_Conversion > 0
        => records[k].Ord_Income - std_deduction * locals[k].inflation_idx
             <= TargetBoundary * locals[k].inflation_idx

-----------------------------------------------------------------------------
(* Properties of calculate_tax against the stacked reference (SpecTax) *)

\* the length of the part of [from, to] that lies within [lower, upper]
Overlap(from, to, lower, upper) == Max(0, Min(to, upper) - Max(from, lower))

\* the sum over the brackets of rate times the length of [from, to] within the
\* bracket, the boundaries scaled by f
RateTimesLength(brackets, f, from, to) ==
    SumSeq([ i \in DOMAIN brackets |->
               brackets[i][2]
               * Overlap(from, to,
                         IF i = 1 THEN 0 ELSE brackets[i - 1][1] * f,
                         brackets[i][1] * f) ])

\* t = max(0, o - 32200 * f) of the call
ReferenceTaxableOrdinary ==
    Max(0, args.ordinary_income - 32200 * args.inflation_factor)

ReferenceOrdinaryTax ==
    RateTimesLength(brackets_ordinary, args.inflation_factor,
                    0, ReferenceTaxableOrdinary)

ReferenceGainsTax ==
    RateTimesLength(brackets_ltcg, args.inflation_factor,
                    ReferenceTaxableOrdinary,
                    ReferenceTaxableOrdinary + args.capital_gains)

\* C27: calculate_tax(o, c, f) is 0 when o + c <= 0, and otherwise the stacked
\* reference: rate times the length of [0, t] within each ordinary bracket
\* plus rate times the length of [t, t + c] within each capital-gains bracket,
\* t = max(0, o - 32200 f); gains wholly below the first capital-gains
\* boundary, and negative gains, add no tax.
C27_TaxIsStackedReference ==
    (fn = "TaxCalculator.calculate_tax" /\ ret.done)
    => /\ args.ordinary_income + args.capital_gains <= 0 => ret.value = 0
       /\ args.ordinary_income + args.capital_gains > 0
          => /\ ret.value = ReferenceOrdinaryTax + ReferenceGainsTax
             /\ ( \/ args.capital_gains < 0
                  \/ ReferenceTaxableOrdinary + args.capital_gains
                       <= brackets_ltcg[1][1] * args.inflation_factor )
                => ret.value = ReferenceOrdinaryTax

\* taxable ordinary income in the second ordinary bracket or above, and gains
\* on top of it that start below the first capital-gains boundary and end
\* above it
C27_Witness ==
    /\ fn = "TaxCalculator.calculate_tax"
    /\ ret.done
    /\ ReferenceTaxableOrdinary > brackets_ordinary[1][1] * args.inflation_factor
    /\ ReferenceTaxableOrdinary < brackets_ltcg[1][1] * args.inflation_factor
    /\ ReferenceTaxableOrdinary + args.capital_gains
         > brackets_ltcg[1][1] * args.inflation_factor
    /\ ReferenceGainsTax > 0
    /\ ret.value = ReferenceOrdinaryTax + ReferenceGainsTax

-----------------------------------------------------------------------------
(* Properties of the two strategies on the same inputs (SpecExecute) *)

\* what each strategy returns on the call's inputs: the call's own result
\* for the strategy called, the other strategy's for the same arguments
StandardResult ==
    IF fn = "StandardStrategy.execute" THEN ret.value
    ELSE StandardStrategy_execute(args.inputs, args.account_balances,
                                  args.income_sources, args.inflation_idx,
                                  brackets_ordinary, std_deduction)

TaxableFirstResult ==
    IF fn = "TaxableFirstStrategy.execute" THEN ret.value
    ELSE TaxableFirstStrategy_execute(args.inputs, args.account_balances,
                                      args.income_sources, args.inflation_idx,
                                      brackets_ordinary, std_deduction)

\* C28: on the same single-year inputs with non-negative balances,
\* TaxableFirstStrategy.execute withdraws from each person's pretax account no
\* more than StandardStrategy.execute does and converts at least as much; when
\* the cash need does not exceed the automatic income, both return the same.
C28_TaxableFirstSparesPretax ==
    ( /\ fn \in {"StandardStrategy.execute", "TaxableFirstStrategy.execute"}
      /\ ret.done
      /\ \A i \in 1 .. 5 : args.account_balances[i] >= 0 )
    => /\ TaxableFirstResult.wd_pretax_p1 <= StandardResult.wd_pretax_p1
       /\ TaxableFirstResult.wd_pretax_p2 <= StandardResult.wd_pretax_p2
       /\ TaxableFirstResult.roth_conversion >= StandardResult.roth_conversion
       /\ CallShortfall <= 0 => TaxableFirstResult = StandardResult

\* a taxable-first call that draws on pretax money, though less of it than
\* the standard strategy would, and converts more
C28_Witness ==
    /\ fn = "TaxableFirstStrategy.execute"
    /\ ret.done
    /\ \A i \in 1 .. 5 : args.account_balances[i] >= 0
    /\ CallShortfall > 0
    /\ ret.value.wd_pretax_p1 + ret.value.wd_pretax_p2 > 0
    /\ ret.value.wd_pretax_p1 + ret.value.wd_pretax_p2
         < StandardResult.wd_pretax_p1 + StandardResult.wd_pretax_p2
    /\ ret.value.roth_conversion > StandardResult.roth_conversion
    /\ StandardResult.roth_conversion > 0

-----------------------------------------------------------------------------
(* Properties of the balance update (Spec) *)

\* the five balances of year k after the update, as recorded
RecordBalances(k) ==
    << records[k].Bal_Taxable, records[k].Bal_PreTax_P1, records[k].Bal_PreTax_P2,
       records[k].Bal_Roth_P1, records[k].Bal_Roth_P2 >>

\* the balances year k starts its growth from
BalancesBefore(k) ==
    IF k = 1
    THEN << config["bal_taxable"], config["bal_pretax_p1"], config["bal_pretax_p2"],
            config["bal_roth_p1"], config["bal_roth_p2"] >>
    ELSE RecordBalances(k - 1)

GrowthRates ==
    << config["growth_rate_taxable"], config["growth_rate_pretax_p1"],
       config["growth_rate_pretax_p2"], config["growth_rate_roth_p1"],
       config["growth_rate_roth_p2"] >>

\* C29: in every simulated year the five balances after the update total
\* their total after the year's growth less the two RMDs and the five
\* withdrawals; a conversion moves money from a person's pretax account to the
\* same person's Roth account; and nothing else enters or leaves an account:
\* a year grows what the year before left, and the variables hold what the
\* last year left.
C29_BalancesChangeOnlyByWithdrawals ==
    /\ \A k \in 1 .. Len(records) :
          /\ SumSeq(RecordBalances(k))
               = SumSeq(locals[k].grown)
                 - (records[k].RMD_P1 + records[k].RMD_P2)
                 - RecordWithdrawals(k)
          /\ records[k].Bal_Taxable = locals[k].grown[1] - records[k].WD_Taxable
          /\ records[k].Bal_PreTax_P1 + records[k].Bal_Roth_P1
               = locals[k].grown[2] + locals[k].grown[4]
                 - records[k].RMD_P1 - records[k].WD_PreTax_P1 - records[k].WD_Roth_P1
          /\ records[k].Bal_PreTax_P2 + records[k].Bal_Roth_P2
               = locals[k].grown[3] + locals[k].grown[5]
                 - records[k].RMD_P2 - records[k].WD_PreTax_P2 - records[k].WD_Roth_P2
          /\ records[k].Bal_Roth_P1
               = locals[k].grown[4] + records[k].Conv_P1 - records[k].WD_Roth_P1
          /\ records[k].Bal_Roth_P2
               = locals[k].grown[5] + records[k].Conv_P2 - records[k].WD_Roth_P2
          /\ \A i \in 1 .. 5 :
                locals[k].grown[i]
                  = BalancesBefore(k)[i] * (1 + GrowthRates[i] + locals[k].market_adj)
    /\ (pc \in {"loop", "returned"} /\ records # << >>)
       => << b_taxable, b_pretax_p1, b_pretax_p2, b_roth_p1, b_roth_p2 >>
            = RecordBalances(Len(records))

\* a second year with an RMD, a withdrawal, a conversion, a tax bill and a
\* tax bill carried from the year before
C29_Witness ==
    /\ Len(records) >= 2
    /\ records[2].RMD_P1 + records[2].RMD_P2 > 0
    /\ RecordWithdrawals(2) > 0
    /\ records[2].Roth_Conversion > 0
    /\ records[2].Tax_Bill > 0
    /\ records[1].Tax_Bill > 0
    /\ SumSeq(RecordBalances(2)) < SumSeq(locals[2].grown)

-----------------------------------------------------------------------------
(* Properties of the balances from one year to the next (Spec) *)

\* the five starting balances are none of them negative
SoundStartingBalances ==
    \A key \in { "bal_taxable", "bal_pretax_p1", "bal_pretax_p2", "bal_roth_p1",
                 "bal_roth_p2" } : config[key] >= 0

\* every growth factor of the years up to k, 1 + configured rate + market
\* perturbation, is non-negative
GrowthNeverNegative(k) ==
    \A j \in 1 .. k : \A i \in 1 .. 5 : 1 + GrowthRates[i] + locals[j].market_adj >= 0

====
